---- MODULE Spec2Model ----
(***************************************************************************)
(* A model of the lumix-ai tool layer: the question bank, worksheet,       *)
(* lesson-plan and session tools and the persistence accessors they call.  *)
(* A behaviour of Spec is one call of a question tool against one content  *)
(* of the bank, and a behaviour of SpecTools one call of any tool (the     *)
(* chat runtime issues tool calls one at a time, and a tool keeps nothing  *)
(* between calls but what it wrote to the store).  SpecSession runs the    *)
(* session tools MaxCalls times in a row, SpecReadBack a creation tool and *)
(* then its query tool, and SpecRace splits generate_questions at its      *)
(* external calls so that the calls of two chat sessions interleave.       *)
(* SpecSessionLesson follows create_session with create_lesson_plan for    *)
(* that session, SpecChat lets user messages and tool calls follow each    *)
(* other in any order, SpecAgentChat is one request to the chat endpoint   *)
(* with the response built from the agent's tool trace, SpecServices one   *)
(* call of a model-backed service function, and SpecAccessors one call of  *)
(* a read accessor of the persistence layer.  SpecBooking books sessions   *)
(* for one student MaxCalls times in a row, SpecAutoWorksheet is one call  *)
(* of create_worksheet that picks its own questions, SpecRepeat a          *)
(* successful generate_questions call made a second time, and SpecSchedule *)
(* one call of get_schedule on any day of a week.                          *)
(*                                                                         *)
(* Strings are TLA+ strings; a DynamoDB table is a sequence of records in  *)
(* scan order; uuid4 is a counter (no collisions).                         *)
(***************************************************************************)
EXTENDS Integers, Sequences, FiniteSets, TLC

(***************************************************************************)
(* Bounds of the model.                                                    *)
(***************************************************************************)
\* largest valid question_count an invocation asks for
MaxK == 2
\* largest number of entries in a model's JSON array
MaxModelItems == 2
\* tool calls in a row on the session tools
MaxCalls == 2

\* external calls that fail during one tool invocation
MaxFaults == 2

(***************************************************************************)
(* Program constants.                                                      *)
(***************************************************************************)
\* search_questions(..., limit: int = 50)
DefaultSearchLimit == 50

\* create_worksheet: question_count = 8
WorksheetQuestionCount == 8

\* create_lesson_plan: get_grade_history(sid, limit=5)
LessonHistoryLimit == 5

\* create_lesson_plan: history[:3]
RecentPerformance == 3

\* create_lesson_plan: acc < 0.7, in hundredths
WeakAccuracy == 70
\* create_lesson_with_worksheet: question_count: int = 8
PackageQuestionCount == 8
\* get_schedule: days_ahead: int = 7
DefaultDaysAhead == 7
\* generate_questions: question_count must be between 1 and 20
MaxQuestionCount == 20
\* criteria.get("questionCount", 10)
DefaultQuestionCount == 10
\* len(text.strip()) < 20
MinTextLength == 20
\* len(question_text) > 10
MinQuestionLength == 10
\* len(trimmed) > 20
MinParagraphLength == 20
\* "confidence": 0.7 and "confidence": 0.5, in hundredths
RegexConfidence == 70
ParagraphConfidence == 50

None == "<None>"

\* datetime.now(timezone.utc).isoformat() during tool call number t
UtcNow(t) == "2026-01-01T00:00:0" \o ToString(t) \o "+00:00"

Min(a, b) == IF a < b THEN a ELSE b

(***************************************************************************)
(* Python / DynamoDB string primitives.                                    *)
(***************************************************************************)
UpperChars == "ABCDEFGHIJKLMNOPQRSTUVWXYZ"
LowerChars == "abcdefghijklmnopqrstuvwxyz"

\* str.lower() on one character
LowerMap ==
    [c \in {SubSeq(UpperChars, i, i) : i \in 1..Len(UpperChars)} |->
        LET i == CHOOSE j \in 1..Len(UpperChars) : SubSeq(UpperChars, j, j) = c
        IN SubSeq(LowerChars, i, i)]

LowerChar(c) == IF c \in DOMAIN LowerMap THEN LowerMap[c] ELSE c

RECURSIVE Lower(_)
\* str.lower()
Lower(s) ==
    IF Len(s) = 0 THEN ""
    ELSE LowerChar(SubSeq(s, 1, 1)) \o Lower(SubSeq(s, 2, Len(s)))

\* DynamoDB contains(attr, :v) on a String attribute: :v is a substring
\* of attr (case-sensitive)
Contains(s, sub) ==
    \E i \in 1..(Len(s) - Len(sub) + 1) : SubSeq(s, i, i + Len(sub) - 1) = sub

\* the order of the characters, as DynamoDB and Python compare strings
AsciiChars ==
    " -0123456789:ABCDEFGHIJKLMNOPQRSTUVWXYZ_abcdefghijklmnopqrstuvwxyz"
CharRank(c) ==
    CHOOSE i \in 1..Len(AsciiChars) : SubSeq(AsciiChars, i, i) = c

RECURSIVE StrLess(_, _)
\* a < b for strings, byte by byte
StrLess(a, b) ==
    IF b = "" THEN FALSE
    ELSE IF a = "" THEN TRUE
    ELSE IF SubSeq(a, 1, 1) # SubSeq(b, 1, 1)
    THEN CharRank(SubSeq(a, 1, 1)) < CharRank(SubSeq(b, 1, 1))
    ELSE StrLess(SubSeq(a, 2, Len(a)), SubSeq(b, 2, Len(b)))

StrLeq(a, b) == a = b \/ StrLess(a, b)

\* the value of an expression, worked out once and then used: a local
\* variable
The(S) == CHOOSE x \in S : TRUE

\* dict.get(key, default)
Get(r, key, default) == IF key \in DOMAIN r THEN r[key] ELSE default

\* an exception on its way up the call stack, and the test for one
Raise(msg) == [exception |-> msg]
IsExc(r) == "exception" \in DOMAIN r

(***************************************************************************)
(* The document store.                                                     *)
(***************************************************************************)
\* Table.scan / Table.query with Limit: the items the store evaluates, at
\* most Limit of them in scan order; a FilterExpression is applied to these
Scan(tbl, limit) == SubSeq(tbl, 1, Min(limit, Len(tbl)))

\* a put that adds the item whether or not its key is there already
PutItemAdding(tbl, key, item, front) ==
    IF front THEN <<item>> \o tbl ELSE Append(tbl, item)

\* Table.put_item: a record with the same key is replaced in place; a new
\* key lands first or last in scan order (the order follows the key's hash)
PutItem(tbl, key, item, front) ==
    IF \E i \in 1..Len(tbl) : tbl[i][key] = item[key]
    THEN [i \in 1..Len(tbl) |-> IF tbl[i][key] = item[key] THEN item ELSE tbl[i]]
    ELSE IF front THEN <<item>> \o tbl ELSE Append(tbl, item)

\* uuid.uuid4().hex[:n] behind a type prefix
NewId(prefix, uid) == prefix \o ToString(uid)

\* a search that filters by topic only
SearchQuestionsByTopic(tbl, topic, difficulty, limit, storeOk) ==
    IF ~storeOk \/ limit < 1 THEN <<>>
    ELSE SelectSeq(Scan(tbl, limit),
              LAMBDA q :
                (topic # None /\ topic # "")
                   => ("topic" \in DOMAIN q /\ Contains(q.topic, topic)))

\* search_questions: a store error becomes the empty list
SearchQuestions(tbl, topic, difficulty, limit, storeOk) ==
    IF ~storeOk \/ limit < 1 THEN <<>>
    ELSE SelectSeq(Scan(tbl, limit),
              LAMBDA q :
                /\ (topic # None /\ topic # "")
                      => ("topic" \in DOMAIN q /\ Contains(q.topic, topic))
                /\ (difficulty # None /\ difficulty # "")
                      => ("difficulty" \in DOMAIN q /\ q.difficulty = difficulty))

(***************************************************************************)
(* question_tools.query_question_topics                                    *)
(***************************************************************************)
RECURSIVE SortedTopics(_)
\* sorted(...) over the distinct topics
SortedTopics(S) ==
    IF S = {} THEN <<>>
    ELSE LET t == CHOOSE t \in S : \A u \in S : StrLeq(t, u)
         IN <<t>> \o SortedTopics(S \ {t})

\* the tool: a scan of the whole bank (every page), the topics counted;
\* an exception of the scan is answered by the handler
QueryQuestionTopics(tbl, storeOk) ==
    LET Topic(i) == Get(tbl[i], "topic", "Unknown")
        Difficulty(i) == Get(tbl[i], "difficulty", "Medium")
        Count(t, d) == Cardinality({i \in 1..Len(tbl) :
                                       Topic(i) = t /\ Difficulty(i) = d})
        sorted == SortedTopics({Topic(i) : i \in 1..Len(tbl)})
    IN IF ~storeOk
       THEN [success |-> FALSE, error |-> "scan failed", topics |-> <<>>,
             total_topics |-> 0]
       ELSE [success |-> TRUE,
             topics |->
                [k \in 1..Len(sorted) |->
                    [topic |-> sorted[k],
                     total_questions |->
                        Cardinality({i \in 1..Len(tbl) :
                                        Topic(i) = sorted[k]}),
                     difficulty_breakdown |->
                        [Easy |-> Count(sorted[k], "Easy"),
                         Medium |-> Count(sorted[k], "Medium"),
                         Hard |-> Count(sorted[k], "Hard")]]],
             total_topics |-> Len(sorted),
             message |-> "Found " \o ToString(Len(sorted))
                            \o " unique topics in the question bank"]

(***************************************************************************)
(* question_tools.query_questions                                          *)
(***************************************************************************)
QueryQuestions(tbl, topic, difficulty, limit, storeOk) ==
    LET found == SearchQuestions(tbl, topic, difficulty, limit, storeOk)
    IN [success |-> TRUE, questions |-> found, count |-> Len(found),
        filters_applied |-> [topic |-> topic, difficulty |-> difficulty]]

(***************************************************************************)
(* question_tools.generate_questions                                       *)
(***************************************************************************)
\* difficulty_map.get(difficulty_level, "Medium")
DifficultyMap(level) ==
    CASE level = "beginner" -> "Easy"
      [] level = "intermediate" -> "Medium"
      [] level = "advanced" -> "Hard"
      [] OTHER -> "Medium"

\* the existing questions of the mapped difficulty, compared in lower case
MatchingQuestions(existing, internal) ==
    SelectSeq(existing,
              LAMBDA q : Lower(Get(q, "difficulty", "")) = Lower(internal))

\* the existence check: search by topic, keep the mapped difficulty
GQMatching(tbl, a, readOk) ==
    MatchingQuestions(
        SearchQuestions(tbl, a.topic, None, DefaultSearchLimit, readOk),
        DifficultyMap(a.difficulty_level))

\* a storing loop that runs over every entry of the model's array
GQSliceAll(items, questions_needed, question_count) == items

\* the list the storing loop runs over: no more entries than were needed
GQSlice(items, questions_needed, question_count) ==
    SubSeq(items, 1,
           Min(IF questions_needed > 0 THEN questions_needed
               ELSE question_count, Len(items)))

\* the test of the early return: enough questions exist already
EnoughExisting(matching, question_count) == Len(matching) >= question_count

\* the topic new records are stored under: the first existing record's
NormalizedTopic(existing, topic) ==
    IF Len(existing) > 0 THEN Get(existing[1], "topic", topic) ELSE topic

\* the record stored for one generated entry q
QuestionItem(uid, q, topic, difficulty, subject_area, question_type, now) ==
    [question_id |-> NewId("question_", uid),
     text |-> Get(q, "question_text", ""),
     topic |-> topic,
     difficulty |-> difficulty,
     source |-> "AI Generated",
     explanation |-> Get(q, "explanation", ""),
     teaching_tips |-> Get(q, "teaching_tips", ""),
     answer |-> Get(q, "answer", ""),
     times_used |-> 0,
     success_rate |-> 0,
     subject_area |-> IF subject_area = None \/ subject_area = ""
                      THEN "General" ELSE subject_area,
     question_type |-> question_type,
     created_at |-> now,
     generated_by |-> "lumix-ai"]

\* a handler that answers an exception like an empty search
GQRaisedAsEmpty(msg) ==
    [success |-> TRUE, questions |-> <<>>, count |-> 0]

\* the return of the outer "except Exception" handler
GQRaised(msg) ==
    [success |-> FALSE, error |-> msg, questions |-> <<>>, count |-> 0]

\* the early return when enough questions exist
GQExisting(matching, question_count) ==
    [success |-> TRUE, questions |-> SubSeq(matching, 1, question_count),
     count |-> question_count, source |-> "database",
     existing_count |-> Len(matching)]

\* the model's answer after the fence stripping and json.loads: the parsed
\* list, or the failure the parse ends in
GQParse(resp) ==
    IF resp.kind = "array" THEN [ok |-> TRUE, items |-> resp.items]
    ELSE [ok |-> FALSE, items |-> <<>>]

GQParseFailed ==
    [success |-> FALSE, error |-> "Failed to parse AI-generated questions",
     questions |-> <<>>]

\* a final return that leaves the existing questions out
GQResultStoredOnly(matching, stored, question_count, questions_needed) ==
    [success |-> TRUE, questions |-> stored, count |-> Len(stored),
     source |-> IF Len(matching) > 0 /\ Len(stored) > 0 THEN "mixed"
                ELSE IF Len(stored) = 0 THEN "database" ELSE "generated",
     existing_count |-> Len(matching), generated_count |-> Len(stored)]

\* the final return: existing and stored questions together
GQResult(matching, stored, question_count, questions_needed) ==
    LET all_questions == matching \o stored
    IN [success |-> TRUE,
        questions |-> IF questions_needed = 0
                      THEN SubSeq(all_questions, 1,
                                  Min(question_count, Len(all_questions)))
                      ELSE all_questions,
        count |-> Len(all_questions),
        source |-> IF Len(matching) > 0 /\ Len(stored) > 0 THEN "mixed"
                   ELSE IF Len(stored) = 0 THEN "database" ELSE "generated",
        existing_count |-> Len(matching),
        generated_count |-> Len(stored)]

\* a turn of the storing loop whose put is conditional: it is refused when
\* the bank holds the same text on the topic and difficulty already
GQStoreOneIfNew(acc, q, ctx, putOk, front) ==
    IF acc.exc # None THEN acc
    ELSE IF q.type # "object"
    THEN [acc EXCEPT !.uid = @ + 1,
                     !.exc = "AttributeError: object has no attribute get"]
    ELSE IF ~putOk
    THEN [acc EXCEPT !.uid = @ + 1, !.exc = "put_item failed"]
    ELSE LET item == QuestionItem(acc.uid, q.fields, ctx.normalized_topic,
                                  ctx.internal, ctx.subject_area,
                                  ctx.question_type, ctx.now)
         IN IF \E i \in 1..Len(acc.tbl) :
                  /\ Get(acc.tbl[i], "topic", "") = item.topic
                  /\ Get(acc.tbl[i], "difficulty", "") = item.difficulty
                  /\ Get(acc.tbl[i], "text", "") = item.text
            THEN [acc EXCEPT !.uid = @ + 1,
                             !.exc = "ConditionalCheckFailedException"]
            ELSE [acc EXCEPT !.uid = @ + 1,
                             !.tbl = PutItem(@, "question_id", item, front),
                             !.stored = Append(@, item)]

\* one turn of the storing loop: draw an id, build the item (q.get raises
\* on an entry that is no JSON object), put it, append it to stored
GQStoreOne(acc, q, ctx, putOk, front) ==
    IF acc.exc # None THEN acc
    ELSE IF q.type # "object"
    THEN [acc EXCEPT !.uid = @ + 1,
                     !.exc = "AttributeError: object has no attribute get"]
    ELSE IF ~putOk
    THEN [acc EXCEPT !.uid = @ + 1, !.exc = "put_item failed"]
    ELSE LET item == QuestionItem(acc.uid, q.fields, ctx.normalized_topic,
                                  ctx.internal, ctx.subject_area,
                                  ctx.question_type, ctx.now)
         IN [acc EXCEPT !.uid = @ + 1,
                        !.tbl = PutItem(@, "question_id", item, front),
                        !.stored = Append(@, item)]

RECURSIVE GQStore(_, _, _, _, _)
\* the storing loop over the sliced list; put number env.putFail fails
GQStore(acc, items, i, ctx, env) ==
    IF i > Len(items) THEN acc
    ELSE GQStore(GQStoreOne(acc, items[i], ctx, env.putFail # i, env.front),
                 items, i + 1, ctx, env)
\* the validation that lets any count up to 20 through, 0 and below too
QuestionCountAbove20(question_count) == question_count > MaxQuestionCount

\* generate_questions: question_count < 1 or question_count > 20
QuestionCountInvalid(question_count) ==
    question_count < 1 \/ question_count > MaxQuestionCount

\* the body of the tool's try block: the tables and the id counter after
\* it, what it returned or raised, and what it did on the way
GenerateQuestionsBody(tbl, uid, a, env) ==
    IF QuestionCountInvalid(a.question_count)
    THEN [tbl |-> tbl, uid |-> uid,
          result |-> [success |-> FALSE,
                      error |-> "question_count must be between 1 and 20",
                      questions |-> <<>>],
          obs |-> [searched |-> FALSE, found |-> 0, model_called |-> FALSE,
                   failed |-> {}]]
    ELSE
    LET existing == SearchQuestions(tbl, a.topic, None, DefaultSearchLimit,
                                    env.readOk)
        internal == DifficultyMap(a.difficulty_level)
        matching == GQMatching(tbl, a, env.readOk)
        questions_needed == a.question_count - Len(matching)
        question_count == IF questions_needed > 0 /\ Len(matching) > 0
                          THEN questions_needed ELSE a.question_count
        parsed == GQParse(env.resp)
        ctx == [normalized_topic |-> NormalizedTopic(existing, a.topic),
                internal |-> internal, subject_area |-> a.subject_area,
                question_type |-> a.question_type, now |-> env.now]
        slice == GQSlice(parsed.items, questions_needed, question_count)
        st == GQStore([tbl |-> tbl, uid |-> uid, stored |-> <<>>, exc |-> None],
                      slice, 1, ctx, env)
        Out(t, u, r, called) ==
            [tbl |-> t, uid |-> u, result |-> r,
             obs |-> [searched |-> TRUE, found |-> Len(matching),
                      model_called |-> called,
                      failed |->
                        (IF env.readOk THEN {}
                         ELSE {"generate.search_questions"})
                        \cup (IF called /\ env.resp.kind = "raise"
                              THEN {"generate.converse"} ELSE {})
                        \cup (IF called /\ env.resp.kind # "raise"
                                 /\ parsed.ok /\ st.exc = "put_item failed"
                              THEN {"generate.put_item"} ELSE {})]]
    IN IF EnoughExisting(matching, a.question_count)
       THEN Out(tbl, uid, GQExisting(matching, a.question_count), FALSE)
       ELSE IF env.resp.kind = "raise"
       THEN Out(tbl, uid, Raise("model invocation failed"), TRUE)
       ELSE IF ~parsed.ok
       THEN Out(tbl, uid, GQParseFailed, TRUE)
       ELSE IF st.exc # None
       THEN Out(st.tbl, st.uid, Raise(st.exc), TRUE)
       ELSE Out(st.tbl, st.uid,
                GQResult(matching, st.stored, question_count, questions_needed),
                TRUE)

\* the tool: the body inside "try", any exception turned into a result
GenerateQuestions(tbl, uid, a, env) ==
    LET body == GenerateQuestionsBody(tbl, uid, a, env)
    IN IF IsExc(body.result)
       THEN [body EXCEPT !.result = GQRaised(body.result.exception)]
       ELSE body

(***************************************************************************)
(* dynamodb_client.create_session / get_sessions and the schedule tools    *)
(***************************************************************************)
RECURSIVE StripDashes(_)
\* session_date.replace('-', '')
StripDashes(s) ==
    IF s = "" THEN ""
    ELSE (IF SubSeq(s, 1, 1) = "-" THEN "" ELSE SubSeq(s, 1, 1))
            \o StripDashes(SubSeq(s, 2, Len(s)))

\* a session id that keeps the date as it was given
SessionIdKeepingDashes(session_date, student_id) ==
    "sess_" \o session_date \o "_" \o student_id

\* f"sess_{date_formatted}_{student_id}"
SessionId(session_date, student_id) ==
    "sess_" \o StripDashes(session_date) \o "_" \o student_id

\* the item without its None values (the optional parameters)
SessionItem(a, created_by, now) ==
    LET optional == [lesson_plan_id |-> a.lesson_plan_id,
                     schedule_id |-> None, notes |-> a.notes]
        given == {k \in DOMAIN optional : optional[k] # None}
    IN [session_id |-> SessionId(a.session_date, a.student_id),
        student_id |-> a.student_id,
        date |-> a.session_date,
        time |-> a.time,
        duration |-> a.duration,
        created_by |-> created_by,
        created_at |-> now]
         @@ [k \in given |-> optional[k]]

\* create_session with a conditional put: a date taken by the student is
\* refused
DbCreateSessionIfFree(tbl, a, created_by, env) ==
    IF ~env.putOk
          \/ \E i \in DOMAIN tbl :
                tbl[i].session_id = SessionId(a.session_date, a.student_id)
    THEN [tbl |-> tbl, result |-> Raise("put_item failed")]
    ELSE LET item == SessionItem(a, created_by, env.now)
         IN [tbl |-> PutItem(tbl, "session_id", item, env.front),
             result |-> item]

\* dynamodb_client.create_session: puts the item and returns it, or raises
DbCreateSession(tbl, a, created_by, env) ==
    IF ~env.putOk THEN [tbl |-> tbl, result |-> Raise("put_item failed")]
    ELSE LET item == SessionItem(a, created_by, env.now)
         IN [tbl |-> PutItem(tbl, "session_id", item, env.front),
             result |-> item]

\* schedule_tools.create_session
CreateSession(tbl, a, env) ==
    LET db == DbCreateSession(tbl, a, "manual", env)
    IN IF IsExc(db.result)
       THEN [tbl |-> db.tbl,
             result |-> [success |-> FALSE, error |-> db.result.exception,
                         session |-> None]]
       ELSE [tbl |-> db.tbl,
             result |-> [success |-> TRUE, session |-> db.result,
                         message |-> "Created session "
                                       \o db.result.session_id \o " for "
                                       \o a.session_date \o " at " \o a.time]]

\* the date_range dict get_sessions builds (empty when no date is given)
DateRange(start_date, end_date) ==
    LET given == [start_date |-> start_date, end_date |-> end_date]
    IN [k \in {k \in DOMAIN given : given[k] # None /\ given[k] # ""}
          |-> given[k]]

\* '#date >= :start_date' AND '#date <= :end_date'
InDateRange(r, date_range) ==
    /\ "start_date" \in DOMAIN date_range
          => ("date" \in DOMAIN r /\ StrLeq(date_range.start_date, r.date))
    /\ "end_date" \in DOMAIN date_range
          => ("date" \in DOMAIN r /\ StrLeq(r.date, date_range.end_date))

RECURSIVE NewestFirst(_)
\* the items of one student in StudentIndex, ScanIndexForward=False
NewestFirst(items) ==
    IF items = <<>> THEN <<>>
    ELSE LET i == CHOOSE i \in 1..Len(items) :
                    \A j \in 1..Len(items) : StrLeq(items[j].date, items[i].date)
         IN <<items[i]>>
              \o NewestFirst(SubSeq(items, 1, i - 1)
                               \o SubSeq(items, i + 1, Len(items)))

\* dynamodb_client.get_sessions: a store error becomes the empty list
DbGetSessions(tbl, student_id, date_range, limit, readOk) ==
    IF ~readOk \/ limit < 1 THEN <<>>
    ELSE LET Wanted(r) == InDateRange(r, date_range)
         IN IF student_id # None /\ student_id # ""
            THEN LET OfStudent(r) == "student_id" \in DOMAIN r
                                        /\ r.student_id = student_id
                 IN SelectSeq(Scan(NewestFirst(SelectSeq(tbl, OfStudent)),
                                   limit),
                              Wanted)
            ELSE SelectSeq(Scan(tbl, limit), Wanted)

\* schedule_tools.get_sessions
GetSessions(tbl, a, readOk) ==
    LET found == DbGetSessions(tbl, a.student_id,
                               DateRange(a.start_date, a.end_date),
                               a.limit, readOk)
        Ready(r) == Get(r, "lesson_plan_id", "") # ""
        NeedsPrep(r) == ~Ready(r)
        ready == SelectSeq(found, Ready)
        needs_prep == SelectSeq(found, NeedsPrep)
    IN [success |-> TRUE, sessions |-> found, count |-> Len(found),
        summary |-> [total |-> Len(found),
                     needs_preparation |-> Len(needs_prep),
                     ready |-> Len(ready)],
        sessions_needing_prep |-> needs_prep,
        sessions_ready |-> ready]

(***************************************************************************)
(* dynamodb_client: the student accessors                                  *)
(***************************************************************************)
\* a missing item, an empty dict
NoItem == [k \in {} |-> None]

\* Python truthiness of an Optional[str]
Truthy(v) == v # None /\ v # ""

\* get_student_by_id: the item under the key, None when there is none or
\* when the store raises
GetStudentById(tbl, student_id, storeOk) ==
    IF ~storeOk \/ student_id = None THEN NoItem
    ELSE IF \E i \in 1..Len(tbl) : tbl[i].student_id = student_id
    THEN tbl[CHOOSE i \in 1..Len(tbl) : tbl[i].student_id = student_id]
    ELSE NoItem

\* get_student_by_name: the first scanned item whose name contains the text
GetStudentByName(tbl, name, storeOk) ==
    LET hits == SelectSeq(tbl, LAMBDA r : "name" \in DOMAIN r
                                            /\ Contains(r.name, name))
    IN IF ~storeOk \/ hits = <<>> THEN NoItem ELSE hits[1]

\* get_all_students
GetAllStudents(tbl, storeOk) == IF storeOk THEN tbl ELSE <<>>

\* get_grade_history: the student's records, most recent first, at most
\* limit of them
GetGradeHistory(tbl, student_id, limit, storeOk) ==
    IF ~storeOk THEN <<>>
    ELSE LET own == NewestFirst(SelectSeq(tbl, LAMBDA r :
                                              r.student_id = student_id))
         IN SubSeq(own, 1, Min(limit, Len(own)))

(***************************************************************************)
(* dynamodb_client.get_schedule                                            *)
(***************************************************************************)
\* a read of the schedules that answers whatever the store holds
DbGetScheduleUnguarded(tbl, student_id, storeOk) ==
    IF Truthy(student_id)
    THEN SelectSeq(tbl, LAMBDA r : r.student_id = student_id)
    ELSE tbl

\* get_schedule: the student's recurring schedules, or all of them; a store
\* error becomes the empty list (start_date and end_date are not used)
DbGetSchedule(tbl, student_id, storeOk) ==
    IF ~storeOk THEN <<>>
    ELSE IF Truthy(student_id)
    THEN SelectSeq(tbl, LAMBDA r : r.student_id = student_id)
    ELSE tbl

(***************************************************************************)
(* schedule_tools.get_schedule.  A day is counted from Monday 2025-12-29,  *)
(* so that the days of a call run over the turn of the month and the year. *)
(***************************************************************************)
\* "%02d"
Pad2(n) == IF n < 10 THEN "0" \o ToString(n) ELSE ToString(n)

\* date.weekday(): Monday is 0, Sunday is 6
Weekday(day) == day % 7

\* date.strftime('%Y-%m-%d')
StrftimeDate(day) ==
    IF day <= 2 THEN "2025-12-" \o ToString(29 + day)
    ELSE "2026-01-" \o Pad2(day - 2)

\* date.strftime('%A')
StrftimeDay(day) ==
    <<"Monday", "Tuesday", "Wednesday", "Thursday", "Friday", "Saturday",
      "Sunday">>[Weekday(day) + 1]

\* a weekday test that takes day_of_week as Python's own numbering
OnWeekdayUnadjusted(day, day_of_week) == Weekday(day) = day_of_week % 7

\* date.weekday() == ((day_of_week - 1) % 7)
OnWeekday(day, day_of_week) == Weekday(day) = (day_of_week - 1) % 7

\* not schedule.get('is_active', True)
ScheduleSkipped(schedule) == ~Get(schedule, "is_active", TRUE)

\* the entry appended for a schedule on a day
UpcomingSession(schedule, day) ==
    [schedule_id |-> Get(schedule, "schedule_id", None),
     student_id |-> Get(schedule, "student_id", None),
     date |-> StrftimeDate(day),
     day |-> StrftimeDay(day),
     time |-> Get(schedule, "time", None),
     duration |-> Get(schedule, "duration", None),
     focus_topics |-> Get(schedule, "focus_topics", <<>>),
     has_lesson_plan |-> FALSE]

RECURSIVE ScheduleDays(_, _, _, _)
\* for i in range(days_ahead): the entries of one schedule, from offset i on
ScheduleDays(schedule, today, i, days_ahead) ==
    IF i >= days_ahead THEN <<>>
    ELSE (IF OnWeekday(today + i, schedule.day_of_week)
          THEN <<UpcomingSession(schedule, today + i)>> ELSE <<>>)
           \o ScheduleDays(schedule, today, i + 1, days_ahead)

RECURSIVE ExpandSchedules(_, _, _)
\* for schedule in schedules: the entries in the order they are appended
ExpandSchedules(schedules, today, days_ahead) ==
    IF schedules = <<>> THEN <<>>
    ELSE (IF ScheduleSkipped(Head(schedules)) THEN <<>>
          ELSE ScheduleDays(Head(schedules), today, 0, days_ahead))
           \o ExpandSchedules(Tail(schedules), today, days_ahead)

\* key=lambda x: f"{x['date']} {x['time']}"
SessionSortKey(x) == x.date \o " " \o x.time

RECURSIVE SortUpcoming(_)
\* list.sort(key=...): ascending by key, equal keys in their first order
SortUpcoming(items) ==
    IF items = <<>> THEN <<>>
    ELSE LET Least(i) == \A j \in 1..Len(items) :
                            StrLeq(SessionSortKey(items[i]),
                                   SessionSortKey(items[j]))
             i == CHOOSE i \in 1..Len(items) :
                    Least(i) /\ \A j \in 1..(i - 1) : ~Least(j)
         IN <<items[i]>>
              \o SortUpcoming(SubSeq(items, 1, i - 1)
                                \o SubSeq(items, i + 1, Len(items)))

\* the tool: the schedules read, expanded over today .. today + days_ahead
\* - 1 and sorted; an active schedule without day_of_week raises in the
\* weekday test (None - 1), which the handler answers
GetSchedule(tbl, student_id, days_ahead, today, storeOk) ==
    LET schedules == DbGetSchedule(tbl, student_id, storeOk)
    IN IF /\ days_ahead > 0
          /\ \E k \in 1..Len(schedules) :
                /\ ~ScheduleSkipped(schedules[k])
                /\ "day_of_week" \notin DOMAIN schedules[k]
       THEN [success |-> FALSE,
             error |-> "unsupported operand type(s) for -: NoneType and int",
             sessions |-> <<>>, count |-> 0]
       ELSE LET upcoming_sessions ==
                    SortUpcoming(ExpandSchedules(schedules, today, days_ahead))
            IN [success |-> TRUE, sessions |-> upcoming_sessions,
                count |-> Len(upcoming_sessions), days_ahead |-> days_ahead]

(***************************************************************************)
(* student_tools.query_students                                            *)
(***************************************************************************)
QSOne(student) ==
    IF DOMAIN student # {}
    THEN [success |-> TRUE, students |-> <<student>>, count |-> 1]
    ELSE [success |-> FALSE, error |-> "Student not found",
          students |-> <<>>, count |-> 0]

QueryStudents(tbl, student_name, student_id, storeOk) ==
    IF Truthy(student_id)
    THEN QSOne(GetStudentById(tbl, student_id, storeOk))
    ELSE IF Truthy(student_name)
    THEN QSOne(GetStudentByName(tbl, student_name, storeOk))
    ELSE LET students == GetAllStudents(tbl, storeOk)
         IN [success |-> TRUE, students |-> students,
             count |-> Len(students)]

(***************************************************************************)
(* worksheet_tools.create_worksheet                                        *)
(***************************************************************************)
RECURSIVE Dashed(_)
\* str.replace(' ', '-')
Dashed(s) ==
    IF s = "" THEN ""
    ELSE (IF SubSeq(s, 1, 1) = " " THEN "-" ELSE SubSeq(s, 1, 1))
            \o Dashed(SubSeq(s, 2, Len(s)))

\* file_key: worksheets/<worksheet id>/<title>-<date>.pdf
WorksheetFileKey(worksheet_id, title, now) ==
    "worksheets/" \o worksheet_id \o "/" \o Dashed(Lower(title))
        \o "-" \o SubSeq(now, 1, 10) \o ".pdf"

\* s3_client.generate_presigned_url('get_object', ...), valid for 7 days
PresignedUrl(file_key) ==
    "https://lumix-files.s3.amazonaws.com/" \o file_key
        \o "?X-Amz-Expires=604800"

\* the reference used when the upload fails
LocalUrl(worksheet_id) == "local://" \o worksheet_id \o ".pdf"

RECURSIVE FetchQuestions(_, _, _)
\* the loop over question_ids: get_item for each, the items found
FetchQuestions(tbl, question_ids, i) ==
    IF i > Len(question_ids) THEN <<>>
    ELSE SelectSeq(tbl, LAMBDA q : q.question_id = question_ids[i])
            \o FetchQuestions(tbl, question_ids, i + 1)

\* the outcomes of generate_questions' external calls when it is called
\* from create_worksheet
NestedEnv(env) ==
    [readOk |-> "generate.search_questions" \notin env.faults,
     resp |-> IF "generate.converse" \in env.faults
              THEN [kind |-> "raise"] ELSE env.resp,
     putFail |-> IF "generate.put_item" \in env.faults THEN 1 ELSE 0,
     front |-> FALSE,
     now |-> env.now]

\* worksheet_metadata with the number of questions asked for as its count
WorksheetMetadataCountingRequested(worksheet_id, a, questions, file_url, now) ==
    [worksheet_id |-> worksheet_id,
     title |-> a.title,
     subject |-> a.subject,
     grade_level |-> a.grade_level,
     topic |-> a.topic,
     topics |-> {Get(questions[i], "topic", a.topic) :
                    i \in 1..Len(questions)},
     difficulty_level |-> a.difficulty_level,
     question_ids |-> [i \in 1..Len(questions) |->
                          Get(questions[i], "question_id", None)],
     question_count |-> IF a.question_ids # <<>> THEN Len(a.question_ids)
                        ELSE WorksheetQuestionCount,
     student_id |-> a.student_id,
     file_url |-> file_url,
     pdf_url |-> file_url,
     format |-> a.format,
     has_answer_key |-> a.include_answer_key,
     created_at |-> now,
     created_by |-> "lumix-ai"]

\* worksheet_metadata
WorksheetMetadata(worksheet_id, a, questions, file_url, now) ==
    [worksheet_id |-> worksheet_id,
     title |-> a.title,
     subject |-> a.subject,
     grade_level |-> a.grade_level,
     topic |-> a.topic,
     topics |-> {Get(questions[i], "topic", a.topic) :
                    i \in 1..Len(questions)},
     difficulty_level |-> a.difficulty_level,
     question_ids |-> [i \in 1..Len(questions) |->
                          Get(questions[i], "question_id", None)],
     question_count |-> Len(questions),
     student_id |-> a.student_id,
     file_url |-> file_url,
     pdf_url |-> file_url,
     format |-> a.format,
     has_answer_key |-> a.include_answer_key,
     created_at |-> now,
     created_by |-> "lumix-ai"]

\* the return of create_worksheet's outer "except Exception" handler
WSRaised(msg) ==
    [success |-> FALSE, error |-> msg, worksheet_id |-> None,
     file_url |-> None]

\* the return when there is nothing to put on the worksheet
WSNoQuestions ==
    [success |-> FALSE,
     error |-> "No questions available and generation failed",
     worksheet_id |-> None]

\* the return of a created worksheet
WSResult(meta, questions) ==
    [success |-> TRUE,
     worksheet_id |-> meta.worksheet_id,
     file_url |-> meta.file_url,
     pdf_url |-> meta.file_url,
     preview_url |-> meta.file_url,
     worksheet |-> meta,
     metadata |-> [title |-> meta.title, subject |-> meta.subject,
                   grade_level |-> meta.grade_level, topic |-> meta.topic,
                   topics |-> meta.topics,
                   question_count |-> Len(questions),
                   has_answer_key |-> meta.has_answer_key],
     questions |-> questions,
     message |-> "Created worksheet '" \o meta.title \o "' with "
                    \o ToString(Len(questions)) \o " questions"]

\* step 1 asking generate_questions for a whole worksheet instead of the
\* questions that are missing
WSQuestionsAskingForAll(st, a, env) ==
    LET question_count == WorksheetQuestionCount
        existing_questions ==
            SearchQuestions(st.questions, a.topic, a.difficulty_level,
                            question_count,
                            "worksheet.search_questions" \notin env.faults)
        needed == question_count - Len(existing_questions)
        searchFailed == {"worksheet.search_questions"} \cap env.faults
    IN IF a.question_ids # <<>>
       THEN [st |-> [st EXCEPT !.uid = @ + 1],
             questions |-> FetchQuestions(st.questions, a.question_ids, 1),
             failed |-> {"worksheet.get_item"} \cap env.faults,
             raised |-> "worksheet.get_item" \in env.faults]
       ELSE IF Len(existing_questions) >= question_count
       THEN [st |-> [st EXCEPT !.uid = @ + 1],
             questions |-> SubSeq(existing_questions, 1, question_count),
             failed |-> searchFailed, raised |-> FALSE]
       ELSE The({ [st |-> [st EXCEPT !.questions = g.tbl, !.uid = g.uid],
                   questions |-> IF g.result.success
                                 THEN existing_questions \o g.result.questions
                                 ELSE existing_questions,
                   failed |-> searchFailed \cup g.obs.failed,
                   raised |-> FALSE] :
                  g \in {GenerateQuestions(
                            st.questions, st.uid + 1,
                            [topic |-> a.topic,
                             difficulty_level |-> a.difficulty_level,
                             question_count |-> question_count,
                             question_type |-> "mixed",
                             subject_area |-> a.subject],
                            NestedEnv(env))} })

\* step 1, get or generate questions: the questions for the worksheet, the
\* tables after the step, the calls that failed, and whether get_item raised
WSQuestions(st, a, env) ==
    LET question_count == WorksheetQuestionCount
        existing_questions ==
            SearchQuestions(st.questions, a.topic, a.difficulty_level,
                            question_count,
                            "worksheet.search_questions" \notin env.faults)
        needed == question_count - Len(existing_questions)
        searchFailed == {"worksheet.search_questions"} \cap env.faults
    IN IF a.question_ids # <<>>
       THEN [st |-> [st EXCEPT !.uid = @ + 1],
             questions |-> FetchQuestions(st.questions, a.question_ids, 1),
             failed |-> {"worksheet.get_item"} \cap env.faults,
             raised |-> "worksheet.get_item" \in env.faults]
       ELSE IF Len(existing_questions) >= question_count
       THEN [st |-> [st EXCEPT !.uid = @ + 1],
             questions |-> SubSeq(existing_questions, 1, question_count),
             failed |-> searchFailed, raised |-> FALSE]
       ELSE The({ [st |-> [st EXCEPT !.questions = g.tbl, !.uid = g.uid],
                   questions |-> IF g.result.success
                                 THEN existing_questions \o g.result.questions
                                 ELSE existing_questions,
                   failed |-> searchFailed \cup g.obs.failed,
                   raised |-> FALSE] :
                  g \in {GenerateQuestions(
                            st.questions, st.uid + 1,
                            [topic |-> a.topic,
                             difficulty_level |-> a.difficulty_level,
                             question_count |-> needed,
                             question_type |-> "mixed",
                             subject_area |-> a.subject],
                            NestedEnv(env))} })

\* steps 2 to 5 without the put_item of the metadata record
WSCreateUnsaved(q, worksheet_id, a, env) ==
    LET file_key == WorksheetFileKey(worksheet_id, a.title, env.now)
        uploaded == "worksheet.put_object" \notin env.faults
    IN The({ [st |-> [q.st EXCEPT
                        !.files = IF uploaded THEN @ \cup {file_key} ELSE @,
                        !.worksheets = @],
              result |-> WSResult(meta, q.questions),
              failed |->
                  q.failed
                    \cup ({"worksheet.put_object", "worksheet.put_item"}
                            \cap env.faults)
                    \cup (IF Truthy(a.student_id)
                          THEN {"worksheet.get_student_by_id"}
                                  \cap env.faults
                          ELSE {})] :
             meta \in {WorksheetMetadata(
                          worksheet_id, a, q.questions,
                          IF uploaded THEN PresignedUrl(file_key)
                          ELSE LocalUrl(worksheet_id),
                          env.now)} })

\* steps 2 to 5 for the questions of step 1: student context, PDF, upload,
\* metadata record, and the return
WSCreate(q, worksheet_id, a, env) ==
    LET file_key == WorksheetFileKey(worksheet_id, a.title, env.now)
        uploaded == "worksheet.put_object" \notin env.faults
        saved == "worksheet.put_item" \notin env.faults
    IN The({ [st |-> [q.st EXCEPT
                        !.files = IF uploaded THEN @ \cup {file_key} ELSE @,
                        !.worksheets =
                            IF saved
                            THEN PutItem(@, "worksheet_id", meta, FALSE)
                            ELSE @],
              result |-> WSResult(meta, q.questions),
              failed |->
                  q.failed
                    \cup ({"worksheet.put_object", "worksheet.put_item"}
                            \cap env.faults)
                    \cup (IF Truthy(a.student_id)
                          THEN {"worksheet.get_student_by_id"}
                                  \cap env.faults
                          ELSE {})] :
             meta \in {WorksheetMetadata(
                          worksheet_id, a, q.questions,
                          IF uploaded THEN PresignedUrl(file_key)
                          ELSE LocalUrl(worksheet_id),
                          env.now)} })

\* the tool with the questions of step 1 in hand
WSFrom(q, worksheet_id, a, env) ==
    IF q.raised
    THEN [st |-> q.st, result |-> WSRaised("get_item failed"),
          failed |-> q.failed]
    ELSE IF Len(q.questions) = 0
    THEN [st |-> q.st, result |-> WSNoQuestions, failed |-> q.failed]
    ELSE WSCreate(q, worksheet_id, a, env)

\* the tool: the tables, the object store and the id counter after it, what
\* it returned, and the external calls that failed on the way
CreateWorksheet(st, a, env) ==
    The({ WSFrom(q, NewId("worksheet_", st.uid), a, env) :
            q \in {WSQuestions(st, a, env)} })

(***************************************************************************)
(* lesson_tools.create_lesson_plan                                         *)
(***************************************************************************)
\* the context gathered from the content source, with the grade level and
\* the topic that go with it
LessonContext(students, history, a, env) ==
    LET byStudent == a.content_source_type = "student_profile"
                        \/ Truthy(a.student_id)
        sid == IF Truthy(a.student_id) THEN a.student_id
               ELSE a.content_source_data
        student == GetStudentById(students, sid,
                       "lesson.get_student_by_id" \notin env.faults)
        found == byStudent /\ DOMAIN student # {}
        recent == GetGradeHistory(history, sid, LessonHistoryLimit,
                      "lesson.get_grade_history" \notin env.faults)
        accuracy == Get(student, "accuracy", NoItem)
        Ctx(context, grade_level, topic) ==
            [context |-> context, grade_level |-> grade_level,
             topic |-> topic, found |-> found,
             failed |-> IF ~byStudent THEN {}
                        ELSE ({"lesson.get_student_by_id"} \cap env.faults)
                               \cup (IF found
                                     THEN {"lesson.get_grade_history"}
                                              \cap env.faults
                                     ELSE {})]
    IN IF found
       THEN Ctx([type |-> "student_profile",
                 student_name |-> Get(student, "name", None),
                 grade |-> Get(student, "grade", None),
                 accuracy |-> accuracy,
                 recent_performance |->
                     SubSeq(recent, 1, Min(RecentPerformance, Len(recent))),
                 weak_areas |-> {t \in DOMAIN accuracy :
                                    accuracy[t] < WeakAccuracy}],
                Get(student, "grade", None),
                IF a.content_source_type = "topic"
                THEN a.content_source_data ELSE "Mixed Topics")
       ELSE IF byStudent
       THEN Ctx(NoItem, a.grade_level, "")
       ELSE IF a.content_source_type = "topic"
       THEN Ctx([type |-> "topic", topic |-> a.content_source_data,
                 grade_level |-> a.grade_level],
                a.grade_level, a.content_source_data)
       ELSE IF a.content_source_type = "standards"
       THEN Ctx([type |-> "standards",
                 standards_text |-> a.content_source_data,
                 grade_level |-> a.grade_level],
                a.grade_level, "Standards-Based Lesson")
       ELSE IF a.content_source_type = "custom_prompt"
       THEN Ctx([type |-> "custom", prompt |-> a.content_source_data,
                 grade_level |-> a.grade_level],
                a.grade_level, "Custom Lesson")
       ELSE Ctx(NoItem, a.grade_level, "")

\* json.dumps(context) raises TypeError on the Decimal values the document
\* store returns for numbers: the student's accuracy map holds them
JsonDumpsRaises(context) ==
    /\ "accuracy" \in DOMAIN context
    /\ DOMAIN context.accuracy # {}

\* int(duration * share) minutes, share in hundredths
ShareOf(duration, share) == ToString((duration * share) \div 100) \o " min"

\* the structure used when the model's answer is no JSON
FallbackLesson(topic, a, text) ==
    [title |-> "Lesson on " \o topic,
     objectives |-> IF a.learning_objectives # <<>>
                    THEN a.learning_objectives
                    ELSE <<"Understand " \o topic>>,
     materials |-> <<"Whiteboard", "Worksheets">>,
     activities |->
        <<[time |-> ShareOf(a.duration, 15), name |-> "Warm-up",
           description |-> "Review previous concepts"],
          [time |-> ShareOf(a.duration, 50), name |-> "Main Instruction",
           description |-> "Teach new concepts"],
          [time |-> ShareOf(a.duration, 20), name |-> "Practice",
           description |-> "Guided practice"],
          [time |-> ShareOf(a.duration, 15), name |-> "Closure",
           description |-> "Summary and homework"]>>,
     assessment |-> "Formative assessment through questioning",
     differentiation |-> "Adjust difficulty based on student needs",
     notes |-> text]

\* ai_lesson: the JSON object of the answer, or the fallback structure
AiLesson(resp, topic, a) ==
    IF resp.kind = "object" THEN resp.fields
    ELSE FallbackLesson(topic, a, resp.text)

\* the lesson_plan record
LessonPlanItem(lesson_plan_id, ai_lesson, ctx, a, now) ==
    LET base ==
          [lesson_plan_id |-> lesson_plan_id,
           title |-> Get(ai_lesson, "title", "Lesson on " \o ctx.topic),
           topic |-> ctx.topic,
           duration |-> a.duration,
           grade_level |-> ctx.grade_level,
           content_source_type |-> a.content_source_type,
           content_source_data |-> a.content_source_data,
           objectives |-> Get(ai_lesson, "objectives", <<>>),
           materials |-> IF a.include_materials
                         THEN Get(ai_lesson, "materials", <<>>) ELSE <<>>,
           activities |-> Get(ai_lesson, "activities", <<>>),
           assessment |-> IF a.include_assessment
                          THEN Get(ai_lesson, "assessment", "") ELSE "",
           differentiation |-> Get(ai_lesson, "differentiation", ""),
           notes |-> Get(ai_lesson, "notes", ""),
           created_at |-> now,
           created_by |-> "lumix-ai"]
        withStudent == IF Truthy(a.student_id)
                       THEN [student_id |-> a.student_id] @@ base ELSE base
    IN IF Truthy(a.worksheet_id)
       THEN [worksheet_id |-> a.worksheet_id] @@ withStudent
       ELSE withStudent

\* the return of create_lesson_plan's outer "except Exception" handler
LPRaised(msg) ==
    [success |-> FALSE, error |-> msg, lesson_plan_id |-> None]

\* the return of a created lesson plan
LPResult(lesson_plan, ai_lesson) ==
    [success |-> TRUE,
     lesson_plan_id |-> lesson_plan.lesson_plan_id,
     lesson_plan |-> lesson_plan,
     message |-> "Created lesson plan: " \o Get(ai_lesson, "title", "None")]

\* the tool with the context in hand
LPFrom(st, ctx, lesson_plan_id, a, env) ==
    IF JsonDumpsRaises(ctx.context)
    THEN [st |-> st,
          result |-> LPRaised("Object of type Decimal is not JSON serializable"),
          failed |-> ctx.failed]
    ELSE IF "lesson.converse" \in env.faults
    THEN [st |-> st, result |-> LPRaised("model invocation failed"),
          failed |-> ctx.failed \cup {"lesson.converse"}]
    ELSE IF env.lresp.kind = "scalar"
    THEN [st |-> st, result |-> LPRaised("object has no attribute 'get'"),
          failed |-> ctx.failed]
    ELSE The({ [st |-> [st EXCEPT
                          !.lessonPlans =
                              IF "lesson.put_item" \notin env.faults
                              THEN PutItem(@, "lesson_plan_id", lesson_plan,
                                           FALSE)
                              ELSE @],
                result |-> LPResult(lesson_plan,
                                    AiLesson(env.lresp, ctx.topic, a)),
                failed |-> ctx.failed
                             \cup ({"lesson.put_item"} \cap env.faults)] :
               lesson_plan \in
                 {LessonPlanItem(lesson_plan_id,
                                 AiLesson(env.lresp, ctx.topic, a), ctx, a,
                                 env.now)} })

\* the tool: the tables and the id counter after it, what it returned, and
\* the external calls that failed on the way
CreateLessonPlan(st, students, history, a, env) ==
    The({ LPFrom([st EXCEPT !.uid = @ + 1], ctx, NewId("lesson_", st.uid),
                 a, env) :
            ctx \in {LessonContext(students, history, a, env)} })

(***************************************************************************)
(* lesson_tools.create_lesson_with_worksheet                               *)
(***************************************************************************)
\* the return when create_worksheet reports a failure
LWWorksheetFailed(worksheet_result) ==
    [success |-> FALSE,
     error |-> "Worksheet creation failed: " \o worksheet_result.error,
     lesson_plan_id |-> None,
     worksheet_id |-> None]

\* a failure of the lesson-plan step reported without the worksheet
LWLessonFailedBare(worksheet_result, lesson_result) ==
    [success |-> FALSE,
     error |-> "Lesson plan creation failed: " \o lesson_result.error,
     lesson_plan_id |-> None,
     worksheet_id |-> None,
     worksheet_url |-> worksheet_result.file_url]

\* the return when create_lesson_plan reports a failure
LWLessonFailed(worksheet_result, lesson_result) ==
    [success |-> FALSE,
     error |-> "Lesson plan creation failed: " \o lesson_result.error,
     lesson_plan_id |-> None,
     worksheet_id |-> worksheet_result.worksheet_id,
     worksheet_url |-> worksheet_result.file_url]

\* the return of the whole package
LWResult(worksheet_result, lesson_result, a) ==
    [success |-> TRUE,
     lesson_plan_id |-> lesson_result.lesson_plan_id,
     worksheet_id |-> worksheet_result.worksheet_id,
     package |->
        [lesson_plan |-> lesson_result.lesson_plan,
         worksheet |->
            [id |-> worksheet_result.worksheet_id,
             url |-> worksheet_result.file_url,
             question_count |-> worksheet_result.metadata.question_count,
             has_answer_key |-> a.include_answer_key]],
     urls |-> [worksheet_url |-> worksheet_result.file_url,
               lesson_plan_url |-> "lesson-plans/"
                                      \o lesson_result.lesson_plan_id],
     message |-> "Created complete teaching package for '" \o a.topic
                    \o "' (" \o ToString(a.duration) \o " min)\n"
                    \o "- Lesson plan: " \o lesson_result.lesson_plan.title
                    \o "\n- Worksheet: "
                    \o ToString(worksheet_result.metadata.question_count)
                    \o " questions"
                    \o (IF Truthy(a.student_id)
                        THEN "\n\nReady to assign to " \o a.student_id
                                \o "'s next session."
                        ELSE "")]

\* the arguments the composite tool passes to create_worksheet
LWWorksheetArgs(a) ==
    [title |-> a.topic \o " Practice Worksheet",
     subject |-> a.subject,
     grade_level |-> a.grade_level,
     topic |-> a.topic,
     difficulty_level |-> a.difficulty_level,
     question_ids |-> <<>>,
     include_answer_key |-> a.include_answer_key,
     format |-> "pdf",
     student_id |-> a.student_id]

\* the arguments the composite tool passes to create_lesson_plan
LWLessonArgs(a, worksheet_id) ==
    [content_source_type |-> a.content_source_type,
     content_source_data |-> IF a.content_source_type = "student_profile"
                             THEN a.student_id ELSE a.topic,
     duration |-> a.duration,
     grade_level |-> a.grade_level,
     learning_objectives |-> <<"Master core concepts in " \o a.topic,
                               "Apply problem-solving strategies",
                               "Build confidence through practice">>,
     include_assessment |-> TRUE,
     include_materials |-> TRUE,
     student_id |-> a.student_id,
     worksheet_id |-> worksheet_id]

\* the tool once create_worksheet has returned success
LWLesson(w, l, a) ==
    [st |-> l.st,
     result |-> IF l.result.success
                THEN LWResult(w.result, l.result, a)
                ELSE LWLessonFailed(w.result, l.result),
     failed |-> w.failed \cup l.failed,
     obs |-> [worksheet |-> w.result, lesson_called |-> TRUE,
              lesson |-> l.result]]

\* the tool going on to the lesson plan whatever create_worksheet returned
LWFromRegardless(w, students, history, a, env) ==
    The({ IF w.result.success THEN LWLesson(w, l, a)
          ELSE [st |-> l.st, result |-> LWWorksheetFailed(w.result),
                failed |-> w.failed,
                obs |-> [worksheet |-> w.result, lesson_called |-> FALSE,
                         lesson |-> LPRaised(None)]] :
            l \in {CreateLessonPlan(
                      w.st, students, history,
                      LWLessonArgs(a, w.result.worksheet_id), env)} })

\* the tool once create_worksheet has returned
LWFrom(w, students, history, a, env) ==
    IF ~w.result.success
    THEN [st |-> w.st, result |-> LWWorksheetFailed(w.result),
          failed |-> w.failed,
          obs |-> [worksheet |-> w.result, lesson_called |-> FALSE,
                   lesson |-> LPRaised(None)]]
    ELSE The({ LWLesson(w, l, a) :
                 l \in {CreateLessonPlan(
                           w.st, students, history,
                           LWLessonArgs(a, w.result.worksheet_id), env)} })

\* the tool: worksheet first, then the lesson plan that refers to it
CreateLessonWithWorksheet(st, students, history, a, env) ==
    The({ LWFrom(w, students, history, a, env) :
            w \in {CreateWorksheet(st, LWWorksheetArgs(a), env)} })

(***************************************************************************)
(* bedrock_service: the model's answer as text, and its parsing            *)
(*                                                                         *)
(* An answer of invoke_nova_model is a text: what stands before the JSON   *)
(* (open: nothing, a code fence, other words), the body, and what stands   *)
(* after it (close).  The body is a JSON value, tagged with its type, or   *)
(* text that is no JSON ("garbage").                                       *)
(***************************************************************************)
\* the code fences clean_json_response looks for: three backticks, with
\* and without the word json (a TLA+ string cannot hold a backtick, which
\* is written [fence] here)
Fence == "[fence]"
FenceJson == Fence \o "json"

\* str.startswith
StartsWith(s, prefix) ==
    Len(s) >= Len(prefix) /\ SubSeq(s, 1, Len(prefix)) = prefix

\* clean_json_response: a leading fence, with or without json, and a
\* trailing fence are cut
CleanJsonResponse(text) ==
    [text EXCEPT
       !.open = IF StartsWith(@, FenceJson)
                THEN SubSeq(@, Len(FenceJson) + 1, Len(@))
                ELSE IF StartsWith(@, Fence)
                THEN SubSeq(@, Len(Fence) + 1, Len(@))
                ELSE @,
       !.close = IF @ = Fence THEN "" ELSE @]

\* json.loads: the value when the text is one JSON value and nothing else,
\* otherwise JSONDecodeError
JsonLoads(text) ==
    IF text.open = "" /\ text.close = "" /\ text.body.type # "garbage"
    THEN [ok |-> TRUE, value |-> text.body]
    ELSE [ok |-> FALSE, value |-> [type |-> "garbage"]]

(***************************************************************************)
(* bedrock_service.select_questions_with_ai                                *)
(***************************************************************************)
\* list(range(n))
IndexRange(n) == [i \in 1..n |-> i - 1]

\* a sequential selection that takes every question
SequentialSelectionAll(question_count, questions) ==
    IndexRange(Len(questions))

\* the fallback: list(range(min(question_count, len(questions))))
SequentialSelection(question_count, questions) ==
    IndexRange(Min(question_count, Len(questions)))

\* what is done with the parsed answer.  An object is looked up for a
\* selectedIndices list; "selectedIndices" in parsed is False for an array
\* or a string without it, indexing a string or an array by it raises
\* TypeError, and so does the membership test on a number, a boolean or
\* null: the handler answers all of these with the fallback
SelectFromParsed(parsed, question_count, questions) ==
    IF /\ parsed.type = "object"
       /\ "selectedIndices" \in DOMAIN parsed.fields
       /\ parsed.fields.selectedIndices.type = "array"
    THEN SubSeq(parsed.fields.selectedIndices.items, 1,
                Min(question_count,
                    Len(parsed.fields.selectedIndices.items)))
    ELSE SequentialSelection(question_count, questions)

\* select_questions_with_ai: the indices returned (or the exception raised
\* while the prompt is built, outside the try), and whether the model was
\* called
SelectQuestionsWithAi(questions, criteria, resp) ==
    LET question_count == Get(criteria, "questionCount", DefaultQuestionCount)
        Out(indices, exc, called) ==
            [indices |-> indices, exc |-> exc, model_called |-> called]
    IN IF Len(questions) <= question_count
       THEN Out(IndexRange(Len(questions)), None, FALSE)
       ELSE IF \E i \in 1..Len(questions) :
                  "text" \in DOMAIN questions[i] /\ questions[i].text = None
       THEN Out(<<>>, "NoneType object is not subscriptable", FALSE)
       ELSE IF resp.kind = "raise"
       THEN Out(SequentialSelection(question_count, questions), None, TRUE)
       ELSE The({ IF parsed.ok
                  THEN Out(SelectFromParsed(parsed.value, question_count,
                                            questions), None, TRUE)
                  ELSE Out(SequentialSelection(question_count, questions),
                           None, TRUE) :
                    parsed \in {JsonLoads(CleanJsonResponse(resp.text))} })

(***************************************************************************)
(* bedrock_service.grade_worksheet_with_ai                                 *)
(***************************************************************************)
\* the result returned from the handler
UngradedResult ==
    [type |-> "object",
     fields |-> [total_questions |-> 0, correct_answers |-> 0,
                 score |-> "0/0", question_results |-> <<>>,
                 weaknesses |-> <<>>,
                 insights |-> "Unable to grade worksheet automatically. Please review manually."]]

\* grade_worksheet_with_ai: the parsed answer of the model as it is, or the
\* ungraded result when the call or the parsing raises
GradeWorksheetWithAi(extracted_text, student_name, resp) ==
    IF resp.kind = "raise" THEN UngradedResult
    ELSE The({ IF parsed.ok THEN parsed.value ELSE UngradedResult :
                 parsed \in {JsonLoads(CleanJsonResponse(resp.text))} })

(***************************************************************************)
(* textract_service.parse_questions_with_ai and fallback_parse_questions   *)
(*                                                                         *)
(* The extracted text is a sequence of lines.  A line is the marker it     *)
(* starts with (a question number such as 1. 2) Q3: or a letter such as    *)
(* (a); empty when it starts with none) and the rest of the line.          *)
(* Confidences are in hundredths.                                          *)
(***************************************************************************)
\* the characters of one line, and the whole text: "\n".join(lines)
RawLine(line) == line.mark \o line.body

RECURSIVE JoinLines(_)
JoinLines(lines) ==
    IF lines = <<>> THEN ""
    ELSE IF Len(lines) = 1 THEN RawLine(lines[1])
    ELSE RawLine(lines[1]) \o "\n" \o JoinLines(Tail(lines))

\* whitespace as str.strip and \s see it
IsSpace(c) == c = " " \/ c = "\n"

RECURSIVE StripLeft(_)
StripLeft(t) ==
    IF t # "" /\ IsSpace(SubSeq(t, 1, 1))
    THEN StripLeft(SubSeq(t, 2, Len(t))) ELSE t

RECURSIVE StripRight(_)
StripRight(t) ==
    IF t # "" /\ IsSpace(SubSeq(t, Len(t), Len(t)))
    THEN StripRight(SubSeq(t, 1, Len(t) - 1)) ELSE t

\* str.strip()
Strip(t) == StripRight(StripLeft(t))

\* the line on which the captured group of a match lies, for a marker at
\* the start of line i: \s* runs over the blanks and line ends after the
\* marker, and the group runs from the first other character to the end of
\* its line (0 when only whitespace follows)
GroupLine(lines, i) ==
    LET Rest(j) == IF j = i THEN lines[i].body ELSE RawLine(lines[j])
        J == {j \in i..Len(lines) : Strip(Rest(j)) # ""}
    IN IF J = {} THEN 0 ELSE CHOOSE j \in J : \A k \in J : j <= k

RECURSIVE RegexQuestions(_, _)
\* the loop over re.finditer: one match per marker at a line start that lies
\* behind the match before it; a captured text of more than 10 characters
\* becomes a question
RegexQuestions(lines, i) ==
    IF i > Len(lines) THEN <<>>
    ELSE IF lines[i].mark = "" THEN RegexQuestions(lines, i + 1)
    ELSE The({ IF j = 0 THEN <<>>
               ELSE The({ (IF Len(question_text) > MinQuestionLength
                           THEN <<[text |-> question_text,
                                   confidence |-> RegexConfidence]>>
                           ELSE <<>>)
                             \o RegexQuestions(lines, j + 1) :
                           question_text \in
                             {Strip(IF j = i THEN lines[i].body
                                    ELSE RawLine(lines[j]))} }) :
               j \in {GroupLine(lines, i)} })

RECURSIVE Paragraphs(_, _)
\* text.split("\n\n"): the runs of lines between empty lines, each joined
\* (acc is the run being read)
Paragraphs(lines, acc) ==
    IF lines = <<>> THEN <<JoinLines(acc)>>
    ELSE IF RawLine(lines[1]) = ""
    THEN <<JoinLines(acc)>> \o Paragraphs(Tail(lines), <<>>)
    ELSE Paragraphs(Tail(lines), Append(acc, lines[1]))

RECURSIVE ParagraphQuestions(_)
\* the loop over the paragraphs: one of more than 20 characters, stripped,
\* becomes a question
ParagraphQuestions(paragraphs) ==
    IF paragraphs = <<>> THEN <<>>
    ELSE The({ (IF Len(trimmed) > MinParagraphLength
                THEN <<[text |-> trimmed,
                        confidence |-> ParagraphConfidence]>>
                ELSE <<>>)
                  \o ParagraphQuestions(Tail(paragraphs)) :
               trimmed \in {Strip(paragraphs[1])} })

\* a fallback that adds the paragraphs to the questions of the splitter
FallbackParseQuestionsBoth(lines) ==
    RegexQuestions(lines, 1) \o ParagraphQuestions(Paragraphs(lines, <<>>))

\* fallback_parse_questions
FallbackParseQuestions(lines) ==
    The({ IF questions # <<>> THEN questions
          ELSE ParagraphQuestions(Paragraphs(lines, <<>>)) :
            questions \in {RegexQuestions(lines, 1)} })

\* the test a parsed entry has to pass: an object with a text of more than
\* 10 characters and a number as confidence
ValidQuestion(q) ==
    /\ q.type = "object"
    /\ "text" \in DOMAIN q.fields
    /\ q.fields.text # None
    /\ Len(q.fields.text) > MinQuestionLength
    /\ "confidence" \in DOMAIN q.fields
    /\ "num" \in DOMAIN q.fields.confidence

\* parse_questions_with_ai: the questions, and whether the model was called.
\* The answer is parsed as it is, json.loads(response.strip()): code fences
\* are not cut here
ParseQuestionsWithAi(lines, resp) ==
    LET text == JoinLines(lines)
        Out(questions, called) ==
            [questions |-> questions, model_called |-> called]
    IN IF text = "" \/ Len(Strip(text)) < MinTextLength
       THEN Out(<<>>, FALSE)
       ELSE IF resp.kind = "raise"
       THEN Out(FallbackParseQuestions(lines), TRUE)
       ELSE The({ IF parsed.ok /\ parsed.value.type = "array"
                  THEN Out([i \in 1..Len(valid) |->
                               [text |-> valid[i].fields.text,
                                confidence |->
                                    valid[i].fields.confidence.num]],
                           TRUE)
                  ELSE Out(FallbackParseQuestions(lines), TRUE) :
                    parsed \in {JsonLoads(resp.text)},
                    valid \in {IF resp.text.body.type = "array"
                               THEN SelectSeq(resp.text.body.items,
                                              ValidQuestion)
                               ELSE <<>>} })

(***************************************************************************)
(* main.agent_chat: what the endpoint relays of the agent's result         *)
(***************************************************************************)
\* the tools whose output the endpoint searches for a worksheet
WorksheetTools == {"create_worksheet", "create_lesson_with_worksheet"}

\* hasattr(obj, name), for an object given as the record of its attributes
HasAttr(obj, name) == name \in DOMAIN obj

\* the trace item built from one entry of result.tool_results
TraceItem(tool_result) ==
    [tool |-> Get(tool_result, "name", "unknown"),
     input |-> Get(tool_result, "input", NoItem),
     output |-> Get(tool_result, "output", None)]

\* the trace item built from one entry of result.tool_calls
CallItem(tool_call) ==
    [tool |-> IF HasAttr(tool_call, "name") THEN tool_call.name
              ELSE "unknown",
     input |-> IF HasAttr(tool_call, "arguments") THEN tool_call.arguments
               ELSE NoItem,
     output |-> None]

\* what one entry of result.tool_results adds to the worksheets list: the
\* value under the key "worksheet" of a successful output of a worksheet
\* tool, when there is one and it is not empty
WorksheetData(tool_result) ==
    IF Get(tool_result, "name", None) \notin WorksheetTools THEN <<>>
    ELSE LET output == Get(tool_result, "output", NoItem)
         IN IF ~Get(output, "success", FALSE) THEN <<>>
            ELSE IF "worksheet" \notin DOMAIN output THEN <<>>
            ELSE IF DOMAIN output.worksheet = {} THEN <<>>
            ELSE <<output.worksheet>>

RECURSIVE CollectWorksheets(_)
CollectWorksheets(tool_results) ==
    IF tool_results = <<>> THEN <<>>
    ELSE WorksheetData(Head(tool_results))
            \o CollectWorksheets(Tail(tool_results))

\* str(message) of a message without content
MessageStr(message) == "{'role': '" \o message.role \o "', 'content': []}"

\* the response text: the text of the first content block of the message
ResponseText(result) ==
    IF ~HasAttr(result, "message") THEN "<AgentResult>"
    ELSE LET content == Get(result.message, "content", <<>>)
         IN IF content # <<>>
            THEN Get(content[1], "text", MessageStr(result.message))
            ELSE MessageStr(result.message)

\* agent_chat after lumix_agent(request.message) returned result
AgentChat(request, result) ==
    LET has_results == HasAttr(result, "tool_results")
                          /\ result.tool_results # <<>>
        has_calls == HasAttr(result, "tool_calls") /\ result.tool_calls # <<>>
    IN [success |-> TRUE,
        data |->
          [response |-> ResponseText(result),
           conversation_id |-> IF Truthy(request.conversation_id)
                               THEN request.conversation_id
                               ELSE "new-session",
           action_traces |->
              IF has_results
              THEN [i \in DOMAIN result.tool_results |->
                      TraceItem(result.tool_results[i])]
              ELSE IF has_calls
              THEN [i \in DOMAIN result.tool_calls |->
                      CallItem(result.tool_calls[i])]
              ELSE <<>>,
           worksheets |-> IF has_results
                          THEN CollectWorksheets(result.tool_results)
                          ELSE <<>>,
           sources |-> <<>>]]

(***************************************************************************)
(* Inputs: what the agent passes, what the model answers, what the store   *)
(* holds at the start.                                                     *)
(***************************************************************************)
\* entry i of a model's JSON array: an object (every other one without the
\* optional keys), or a bare string
ModelEntry(i, isObject) ==
    IF ~isObject THEN [type |-> "string", fields |-> [value |-> "text"]]
    ELSE IF i % 2 = 1
    THEN [type |-> "object",
          fields |-> [question_text |-> "Q" \o ToString(i),
                      answer |-> "A" \o ToString(i),
                      explanation |-> "E" \o ToString(i),
                      teaching_tips |-> "T" \o ToString(i)]]
    ELSE [type |-> "object", fields |-> [question_text |-> "Q" \o ToString(i)]]

\* a JSON array of n entries whose entry number bad (if any) is no object
ModelItems(n, bad) == [i \in 1..n |-> ModelEntry(i, i # bad)]

\* what bedrock_client.converse can do: raise, answer text that is no
\* JSON, JSON that is no array, or an array
GenResponses ==
    {[kind |-> "raise"], [kind |-> "invalid"], [kind |-> "object"]}
      \cup {[kind |-> "array", items |-> ModelItems(n, bad)] :
               n \in 0..MaxModelItems, bad \in {0, 2}}

\* a question record already in the bank
BankQuestion(n, topic, difficulty) ==
    [question_id |-> "question_db" \o ToString(n),
     text |-> "bank question " \o ToString(n),
     topic |-> topic, difficulty |-> difficulty, source |-> "database"]

\* a record an earlier generate_questions call stored
EarlierGenerated(n, topic, difficulty) ==
    [question_id |-> "question_old" \o ToString(n)]
       @@ QuestionItem(n, ModelEntry(1, TRUE).fields, topic, difficulty, None,
                       "mixed", "2025-12-01T09:00:00+00:00")

\* a bank larger than one scan page: DefaultSearchLimit records on another
\* topic ahead of two on fractions
LargeBank ==
    [i \in 1..DefaultSearchLimit |-> BankQuestion(i, "Algebra", "Medium")]
      \o <<BankQuestion(DefaultSearchLimit + 1, "Fractions", "Easy"),
           BankQuestion(DefaultSearchLimit + 2, "Fractions", "Easy")>>

InitQuestionStores ==
    { <<>>,
      <<BankQuestion(1, "Fractions", "Easy")>>,
      <<BankQuestion(1, "Fractions", "Easy"),
        BankQuestion(2, "Fractions", "Easy")>>,
      <<BankQuestion(1, "Mixed Fractions", "Medium"),
        BankQuestion(2, "Fractions", "easy"),
        BankQuestion(3, "fractions", "Easy")>>,
      <<EarlierGenerated(1, "Fractions", "Easy"),
        BankQuestion(2, "Fractions", "Medium"),
        [question_id |-> "question_db3", text |-> "bank question 3",
         topic |-> "Fractions"]>>,
      LargeBank }

GenTopics == {"Fractions", "fractions"}
GenLevels == {"beginner", "intermediate"}
GenCounts == (0..MaxK) \cup {MaxQuestionCount + 1}

GenArgs ==
    [topic : GenTopics, difficulty_level : GenLevels,
     question_count : GenCounts, question_type : {"mixed"},
     subject_area : {None}]

\* whether a generate_questions call returns at its existence check
GQEarly(tbl, a, readOk) ==
    \/ QuestionCountInvalid(a.question_count)
    \/ EnoughExisting(GQMatching(tbl, a, readOk), a.question_count)

\* the outcomes of the external calls that a generate_questions call gets
\* to see: past the existence check the model's answer, and in the storing
\* loop the put (if any) that fails and where the scan finds new records
GQResponses(early) == IF early THEN {[kind |-> "raise"]} ELSE GenResponses

GQPutFails(early, resp) ==
    IF ~early /\ resp.kind = "array" THEN 0..Len(resp.items) ELSE {0}

GQFronts(early, resp) ==
    IF ~early /\ resp.kind = "array" /\ Len(resp.items) > 0
    THEN BOOLEAN ELSE {FALSE}

QueryTopics == {None, "Fractions", "fractions"}
QueryDifficulties == {None, "", "Easy", "Medium"}
QueryLimits == {1, DefaultSearchLimit}

\* a session record written earlier (by this service or by lumix-web)
StoredSession(student_id, date, time, lesson_plan_id) ==
    SessionItem([student_id |-> student_id, session_date |-> date,
                 time |-> time, duration |-> 60,
                 lesson_plan_id |-> lesson_plan_id, notes |-> None],
                "manual", "2025-12-01T09:00:00+00:00")

InitSessionStores ==
    { <<>>,
      <<StoredSession("s1", "2026-01-05", "14:00", None)>>,
      <<StoredSession("s1", "2026-01-06", "14:00", "lesson_1"),
        StoredSession("s2", "2026-01-05", "09:00", None),
        StoredSession("s1", "2026-01-04", "14:00", None)>> }

SessionStudents == {"s1", "s2"}
SessionDates == {"2026-01-05", "2026-01-06"}
SessionTimes == {"14:00", "15:30"}
SessionArgs ==
    [student_id : SessionStudents, session_date : SessionDates,
     time : SessionTimes, duration : {60},
     lesson_plan_id : {None, "lesson_1"}, notes : {None}]

GetSessionsArgs ==
    [student_id : {None, "s1"},
     start_date : {None, "2026-01-05"}, end_date : {None, "2026-01-05"},
     limit : {1, DefaultSearchLimit}]

\* the bank, the arguments and the model's answers of the concurrent calls
RaceStores ==
    { <<>>,
      <<BankQuestion(1, "Fractions", "Easy")>>,
      <<BankQuestion(1, "Fractions", "Easy"),
        BankQuestion(2, "Fractions", "Medium")>> }

RaceArgs ==
    [topic : {"Fractions"}, difficulty_level : {"beginner"},
     question_count : 1..MaxK, question_type : {"mixed"},
     subject_area : {None}]

RaceResponses ==
    {[kind |-> "raise"], [kind |-> "invalid"]}
      \cup {[kind |-> "array", items |-> ModelItems(n, 0)] :
               n \in 0..MaxModelItems}

\* lumix-students and lumix-grade-history as lumix-web wrote them; numbers
\* (the accuracy per topic, in hundredths) come back as Decimal
StudentsTable ==
    << [student_id |-> "s1", name |-> "Ada Lim", grade |-> "7",
        accuracy |-> [Fractions |-> 65, Algebra |-> 90]],
       [student_id |-> "s2", name |-> "Ben Tan", grade |-> "8"] >>

GradeHistoryTable ==
    << [student_id |-> "s2", date |-> "2025-11-20", score |-> "80%"],
       [student_id |-> "s2", date |-> "2025-11-27", score |-> "60%"] >>

\* the bank at the start of a worksheet or lesson-plan call
ToolStores ==
    { <<>>,
      <<BankQuestion(1, "Fractions", "Easy"),
        BankQuestion(2, "Fractions", "Easy")>>,
      [n \in 1..WorksheetQuestionCount |->
          BankQuestion(n, "Algebra", "Medium")] }

\* the external calls of the worksheet and lesson-plan tools, by call site
WorksheetCalls ==
    {"worksheet.get_item", "worksheet.search_questions",
     "generate.search_questions", "generate.converse", "generate.put_item",
     "worksheet.get_student_by_id", "worksheet.put_object",
     "worksheet.put_item"}

LessonCalls ==
    {"lesson.get_student_by_id", "lesson.get_grade_history",
     "lesson.converse", "lesson.put_item"}

\* the calls that fail during one invocation: at most MaxFaults of them (a
\* tool call is taken with the set of calls that it made and that failed)
FaultSets(sites) == {F \in SUBSET sites : Cardinality(F) <= MaxFaults}

\* what the model answers to the question prompt when it answers
ToolResponses ==
    {[kind |-> "invalid"],
     [kind |-> "array", items |-> ModelItems(0, 0)],
     [kind |-> "array", items |-> ModelItems(MaxModelItems, 0)]}

\* what the model answers to the lesson prompt when it answers: a JSON
\* object, text that is no JSON, or JSON that is no object
LessonResponses ==
    {[kind |-> "object",
      fields |-> [title |-> "Fractions in Depth",
                  objectives |-> <<"Compare fractions">>,
                  materials |-> <<"Fraction tiles">>,
                  activities |-> <<[time |-> "5 min", name |-> "Warm-up",
                                    description |-> "Recall halves"]>>,
                  assessment |-> "Exit ticket",
                  differentiation |-> "Pair work",
                  notes |-> "Use visuals"]],
     [kind |-> "object", fields |-> [objectives |-> <<"Compare fractions">>]],
     [kind |-> "text", text |-> "Here is your lesson plan."],
     [kind |-> "scalar", text |-> "42"]}

WorksheetArgs ==
    [title : {"Fractions Quiz"}, subject : {"Mathematics"},
     grade_level : {"7"}, topic : {"Fractions", "Algebra"},
     difficulty_level : {"beginner", "Medium"},
     question_ids : {<<>>, <<"question_db1">>,
                     <<"question_db2", "question_x">>},
     include_answer_key : {TRUE}, format : {"pdf"},
     student_id : {None, "s1"}]

LessonArgs ==
    [content_source_type : {"topic", "student_profile", "standards",
                            "custom_prompt"},
     content_source_data : {"Fractions", "s2"},
     duration : {45}, grade_level : {"7"},
     learning_objectives : {<<>>},
     include_assessment : BOOLEAN, include_materials : {TRUE},
     student_id : {None, "s1", "s2"},
     worksheet_id : {None, "worksheet_7"}]

PackageArgs ==
    [topic : {"Fractions", "Algebra"}, duration : {45},
     grade_level : {"7"}, subject : {"Mathematics"},
     student_id : {None, "s1", "s2"},
     difficulty_level : {"beginner"},
     question_count : {PackageQuestionCount},
     content_source_type : {"topic", "student_profile"},
     include_answer_key : {TRUE}]

StudentNames == {None, "Ada", "ada"}
StudentIds == {None, "s1", "s9"}

\* lumix-session-schedules as lumix-web wrote it
SchedulesTable ==
    << [schedule_id |-> "schedule_a1", student_id |-> "s1",
        day_of_week |-> 1, time |-> "14:00", duration |-> 60,
        focus_topics |-> <<"Fractions">>, is_active |-> TRUE],
       [schedule_id |-> "schedule_b2", student_id |-> "s2",
        day_of_week |-> 3, time |-> "09:00", duration |-> 45,
        focus_topics |-> <<>>, is_active |-> FALSE] >>

\* the Limit a caller passes to get_grade_history
HistoryLimits == {1, LessonHistoryLimit, 10}

\* what can stand around the body of a model answer
Fences ==
    {<<"", "">>, <<FenceJson, Fence>>, <<Fence, Fence>>, <<FenceJson, "">>,
     <<Fence \o "JSON", Fence>>, <<"Here is the JSON:", "">>}

\* the answers of invoke_nova_model with the given bodies, and its raising
ModelAnswers(bodies) ==
    {[kind |-> "raise"]}
      \cup {[kind |-> "text",
             text |-> [open |-> f[1], body |-> b, close |-> f[2]]] :
               f \in Fences, b \in bodies}

JsonArray(items) == [type |-> "array", items |-> items]

\* the bodies of an answer to the selection prompt
SelectionBodies ==
    {[type |-> "object", fields |-> [selectedIndices |-> JsonArray(l)]] :
        l \in {<<>>, <<2, 0>>, <<3, 1, 0, 2>>}}
      \cup {[type |-> "object",
              fields |-> [selectedIndices |-> [type |-> "string",
                                               text |-> "0, 2"]]],
             [type |-> "object", fields |-> [indices |-> JsonArray(<<0>>)]],
             JsonArray(<<0, 1>>),
             [type |-> "string", text |-> "selectedIndices"],
             [type |-> "number", num |-> 42],
             [type |-> "null"],
             [type |-> "garbage"]}

\* the bodies of an answer to the grading prompt: the format asked for, an
\* object with other keys, and JSON that is no object
GradingBodies ==
    {[type |-> "object",
      fields |-> [total_questions |-> 2, correct_answers |-> 1,
                  score |-> "1/2",
                  question_results |->
                      <<[question_id |-> "q1", is_correct |-> TRUE],
                        [question_id |-> "q2", is_correct |-> FALSE]>>,
                  weaknesses |-> <<"Fractions">>,
                  insights |-> "Practise common denominators."]],
     [type |-> "object", fields |-> [score |-> "1/2", grade |-> "B"]],
     [type |-> "object", fields |-> NoItem],
     JsonArray(<<0, 1>>),
     [type |-> "string", text |-> "1/2"],
     [type |-> "number", num |-> 42],
     [type |-> "null"],
     [type |-> "garbage"]}

GradingTexts == {"", "1. 2 + 2 = 4  2. 1/2 + 1/3 = 2/5"}

\* extracted texts: numbered questions; paragraphs without numbers; numbered
\* lines too short to count, before a paragraph; a number on a line of its
\* own; short paragraphs only; a text too short to parse; no text
TextLine(mark, body) == [mark |-> mark, body |-> body]

ExtractedTexts ==
    { <<TextLine("1.", " What is one half plus one third?"),
        TextLine("2)", " Solve 3x + 5 = 20 for x.  ")>>,
      <<TextLine("", "Find the area of a circle of radius 3."),
        TextLine("", ""),
        TextLine("", "A train leaves at noon and"),
        TextLine("", "arrives at four. How long?")>>,
      <<TextLine("1.", " 2 + 2 = ?"),
        TextLine("(b)", " 3 + 3 = ?"),
        TextLine("", ""),
        TextLine("", ""),
        TextLine("", "  Show all of your working clearly.")>>,
      <<TextLine("Q1:", ""),
        TextLine("", "Find the area of a circle of radius 3."),
        TextLine("Q2:", " "),
        TextLine("3.", " Name the longest side.")>>,
      <<TextLine("", "Name: Ada Lim"),
        TextLine("", ""),
        TextLine("", "Worksheet seven")>>,
      <<TextLine("1.", " 2 + 2 = ?")>>,
      <<>> }

\* the bodies of an answer to the segmentation prompt
QuestionEntry(text, confidence) ==
    [type |-> "object", fields |-> [text |-> text, confidence |-> confidence]]

SegmentationBodies ==
    {JsonArray(<<QuestionEntry("What is one half plus one third?",
                               [num |-> 95]),
                 QuestionEntry("2 + 2 = ?", [num |-> 90]),
                 QuestionEntry("Solve 3x + 5 = 20 for x.", [str |-> "high"]),
                 QuestionEntry(None, [num |-> 80]),
                 [type |-> "string", fields |-> NoItem]>>),
     JsonArray(<<>>),
     [type |-> "object",
      fields |-> [questions |-> JsonArray(<<>>)]],
     [type |-> "string", text |-> "no questions found"],
     [type |-> "null"],
     [type |-> "garbage"]}

\* the questions handed to the selection: n of them, the last one without
\* a text when so chosen
SelectionQuestions(n, noText) ==
    [i \in 1..n |->
        IF noText /\ i = n
        THEN [BankQuestion(i, "Fractions", "Easy") EXCEPT !.text = None]
        ELSE BankQuestion(i, "Fractions", "Easy")]

SelectionSizes == (0..(MaxK + 2)) \cup {DefaultQuestionCount + 1}

SelectionCriteria ==
    {NoItem} \cup {[questionCount |-> k] : k \in 0..(MaxK + 1)}

(***************************************************************************)
(* State.                                                                  *)
(***************************************************************************)
VARIABLES
    questions,      \* lumix-questions, in scan order
    sessions,       \* lumix-sessions, in scan order
    worksheets,     \* lumix-worksheets, in scan order
    lessonPlans,    \* lumix-lesson-plans, in scan order
    files,          \* the keys of the objects in the S3 bucket
    nextId,         \* the next uuid4 draw
    calls,          \* tool calls completed
    prev,           \* the tool call before the last
    last,           \* the last tool call: tool, args, env, result, obs
    pc,             \* where each concurrent generate_questions call stands
    loc             \* the local variables of each concurrent call

vars ==
    <<questions, sessions, worksheets, lessonPlans, files, nextId, calls,
      prev, last, pc, loc>>

\* what the worksheet and lesson-plan tools write
artifacts == <<worksheets, lessonPlans, files>>

\* nothing was written by them yet
NoArtifacts ==
    /\ worksheets = <<>>
    /\ lessonPlans = <<>>
    /\ files = {}

NoCall == [tool |-> "none"]

\* the chat sessions that call generate_questions concurrently
Procs == {1, 2}

\* no concurrent call is under way
NoRace ==
    /\ pc = [p \in Procs |-> "off"]
    /\ loc = [p \in Procs |-> NoCall]

\* one more tool call returns: what it was is kept in last
Returned(call) ==
    /\ calls' = calls + 1
    /\ prev' = last
    /\ last' = call
    /\ UNCHANGED <<pc, loc>>

\* a call of a tool that writes no worksheet and no lesson plan returns
Returns(call) ==
    /\ Returned(call)
    /\ UNCHANGED artifacts

\* no tool call was made yet
Idle == calls = 0

(***************************************************************************)
(* The question tools, one call against one content of the bank.           *)
(***************************************************************************)
Init ==
    /\ questions \in InitQuestionStores
    /\ sessions = <<>>
    /\ NoArtifacts
    /\ nextId = 1
    /\ calls = 0
    /\ prev = NoCall
    /\ last = NoCall
    /\ NoRace

\* the agent calls generate_questions
GenerateQuestionsCall ==
    /\ Idle
    /\ \E a \in GenArgs, readOk \in BOOLEAN :
         LET early == GQEarly(questions, a, readOk)
         IN \E resp \in GQResponses(early) :
              \E putFail \in GQPutFails(early, resp),
                 front \in GQFronts(early, resp) :
                LET env == [readOk |-> readOk, resp |-> resp,
                            putFail |-> putFail, front |-> front,
                            now |-> UtcNow(calls)]
                    r == GenerateQuestions(questions, nextId, a, env)
                IN /\ questions' = r.tbl
                   /\ nextId' = r.uid
                   /\ Returns([tool |-> "generate_questions", args |-> a,
                               env |-> env, result |-> r.result,
                               obs |-> r.obs])
                   /\ UNCHANGED sessions

\* query_questions runs against the bank as it is
QueryQuestionsRuns ==
    \E topic \in QueryTopics, difficulty \in QueryDifficulties,
       limit \in QueryLimits, storeOk \in BOOLEAN :
        /\ Returns([tool |-> "query_questions",
                    args |-> [topic |-> topic, difficulty |-> difficulty,
                              limit |-> limit],
                    env |-> [readOk |-> storeOk],
                    result |-> QueryQuestions(questions, topic, difficulty,
                                              limit, storeOk)])
        /\ UNCHANGED <<questions, sessions, nextId>>

\* the agent calls query_questions
QueryQuestionsCall == Idle /\ QueryQuestionsRuns

Next ==
    \/ GenerateQuestionsCall
    \/ QueryQuestionsCall

Spec == Init /\ [][Next]_vars

(***************************************************************************)
(* The session tools, MaxCalls calls in a row.                             *)
(***************************************************************************)
InitSession ==
    /\ questions = <<>>
    /\ sessions \in InitSessionStores
    /\ NoArtifacts
    /\ nextId = 1
    /\ calls = 0
    /\ prev = NoCall
    /\ last = NoCall
    /\ NoRace

\* the agent calls create_session
CreateSessionCall ==
    /\ calls < MaxCalls
    /\ \E a \in SessionArgs, putOk \in BOOLEAN :
         LET env == [putOk |-> putOk, front |-> FALSE, now |-> UtcNow(calls)]
             r == CreateSession(sessions, a, env)
         IN /\ sessions' = r.tbl
            /\ Returns([tool |-> "create_session", args |-> a, env |-> env,
                        result |-> r.result])
            /\ UNCHANGED <<questions, nextId>>

\* get_sessions runs against the sessions table as it is
GetSessionsRuns ==
    \E a \in GetSessionsArgs, readOk \in BOOLEAN :
        /\ Returns([tool |-> "get_sessions", args |-> a,
                    env |-> [readOk |-> readOk],
                    result |-> GetSessions(sessions, a, readOk)])
        /\ UNCHANGED <<questions, sessions, nextId>>

\* the agent calls get_sessions
GetSessionsCall == calls < MaxCalls /\ GetSessionsRuns

NextSession ==
    \/ CreateSessionCall
    \/ GetSessionsCall

SpecSession == InitSession /\ [][NextSession]_vars

(***************************************************************************)
(* A student is booked up to MaxCalls times: create_session calls for one  *)
(* student, with the date, time, duration and optional fields varying.     *)
(***************************************************************************)
BookingArgs ==
    [student_id : {"s1"}, session_date : SessionDates, time : SessionTimes,
     duration : {45, 60}, lesson_plan_id : {None, "lesson_1"},
     notes : {None, "bring a ruler"}]

InitBooking ==
    /\ questions = <<>>
    /\ sessions \in {<<>>, <<StoredSession("s2", "2026-01-05", "09:00", None)>>}
    /\ NoArtifacts
    /\ nextId = 1
    /\ calls = 0
    /\ prev = NoCall
    /\ last = NoCall
    /\ NoRace

BookSession ==
    /\ calls < MaxCalls
    /\ \E a \in BookingArgs, putOk \in BOOLEAN :
         LET env == [putOk |-> putOk, front |-> FALSE, now |-> UtcNow(calls)]
             r == CreateSession(sessions, a, env)
         IN /\ sessions' = r.tbl
            /\ Returns([tool |-> "create_session", args |-> a, env |-> env,
                        result |-> r.result])
            /\ UNCHANGED <<questions, nextId>>

NextBooking == BookSession

SpecBooking == InitBooking /\ [][NextBooking]_vars

(***************************************************************************)
(* A creation tool followed by the query tool that reads its records back. *)
(***************************************************************************)
InitReadBack == Init \/ InitSession

\* the agent reads the bank after a generate_questions call has returned
QueryAfterGenerate ==
    /\ calls = 1
    /\ last.tool = "generate_questions"
    /\ QueryQuestionsRuns

\* the agent creates a session first
CreateSessionFirst == Idle /\ CreateSessionCall

\* the agent reads the sessions after a create_session call has returned
GetSessionsAfterCreate ==
    /\ calls = 1
    /\ last.tool = "create_session"
    /\ GetSessionsRuns

NextReadBack ==
    \/ GenerateQuestionsCall
    \/ QueryAfterGenerate
    \/ CreateSessionFirst
    \/ GetSessionsAfterCreate

SpecReadBack == InitReadBack /\ [][NextReadBack]_vars

(***************************************************************************)
(* generate_questions twice in a row with the same arguments, nothing      *)
(* else writing in between.                                                *)
(***************************************************************************)
\* the agent repeats the generate_questions call that has just returned
\* success
GenerateQuestionsAgain ==
    /\ calls = 1
    /\ last.tool = "generate_questions"
    /\ last.result.success
    /\ \E readOk \in BOOLEAN :
         LET a == last.args
             early == GQEarly(questions, a, readOk)
         IN \E resp \in GQResponses(early) :
              \E putFail \in GQPutFails(early, resp),
                 front \in GQFronts(early, resp) :
                LET env == [readOk |-> readOk, resp |-> resp,
                            putFail |-> putFail, front |-> front,
                            now |-> UtcNow(calls)]
                IN \E r \in {GenerateQuestions(questions, nextId, a, env)} :
                     /\ questions' = r.tbl
                     /\ nextId' = r.uid
                     /\ Returns([tool |-> "generate_questions", args |-> a,
                                 env |-> env, result |-> r.result,
                                 obs |-> r.obs])
                     /\ UNCHANGED sessions

NextRepeat ==
    \/ GenerateQuestionsCall
    \/ GenerateQuestionsAgain

SpecRepeat == Init /\ [][NextRepeat]_vars

(***************************************************************************)
(* One call of get_schedule, on any day of a week, against the recurring   *)
(* schedules lumix-web keeps (the agent has no tool that writes them).     *)
(***************************************************************************)
\* two students on Mondays, the later hour stored first; a Sunday schedule
\* without the active flag; an inactive one
WeeklySchedules ==
    << [schedule_id |-> "schedule_c3", student_id |-> "s1",
        day_of_week |-> 1, time |-> "14:00", duration |-> 60,
        focus_topics |-> <<"Fractions">>, is_active |-> TRUE],
       [schedule_id |-> "schedule_d4", student_id |-> "s2",
        day_of_week |-> 1, time |-> "09:00", duration |-> 45,
        focus_topics |-> <<>>, is_active |-> TRUE],
       [schedule_id |-> "schedule_e5", student_id |-> "s1",
        day_of_week |-> 7, time |-> "10:00", duration |-> 60,
        focus_topics |-> <<"Algebra">>],
       [schedule_id |-> "schedule_f6", student_id |-> "s2",
        day_of_week |-> 4, time |-> "16:30", duration |-> 30,
        focus_topics |-> <<>>, is_active |-> FALSE],
       [schedule_id |-> "schedule_g7", student_id |-> "s1",
        day_of_week |-> 3, time |-> "08:15", duration |-> 60,
        focus_topics |-> <<>>, is_active |-> TRUE] >>

\* a record that lacks day_of_week among the schedules
SchedulesWithGap ==
    Append(SchedulesTable,
           [schedule_id |-> "schedule_h8", student_id |-> "s2",
            time |-> "11:00", duration |-> 30, focus_topics |-> <<>>,
            is_active |-> TRUE])

ScheduleStores == {<<>>, SchedulesTable, WeeklySchedules, SchedulesWithGap}

ScheduleDaysAhead == {0, 1, DefaultDaysAhead, 2 * DefaultDaysAhead}

\* datetime.now(): any day of the week of 2025-12-29
ScheduleTodays == 0..6

InitSchedule ==
    /\ questions = <<>>
    /\ sessions = <<>>
    /\ NoArtifacts
    /\ nextId = 1
    /\ calls = 0
    /\ prev = NoCall
    /\ last = NoCall
    /\ NoRace

GetScheduleCall ==
    /\ Idle
    /\ \E tbl \in ScheduleStores, student_id \in {None, "s1", "s2"},
          days_ahead \in ScheduleDaysAhead, today \in ScheduleTodays,
          storeOk \in BOOLEAN :
         /\ Returns([tool |-> "get_schedule",
                     args |-> [student_id |-> student_id,
                               days_ahead |-> days_ahead],
                     env |-> [schedules |-> tbl, today |-> today,
                              readOk |-> storeOk],
                     result |-> GetSchedule(tbl, student_id, days_ahead,
                                            today, storeOk)])
         /\ UNCHANGED <<questions, sessions, nextId>>

NextSchedule == GetScheduleCall

SpecSchedule == InitSchedule /\ [][NextSchedule]_vars

(***************************************************************************)
(* Every tool, one call against one content of the tables.                 *)
(***************************************************************************)
InitTools ==
    /\ \/ questions \in ToolStores /\ sessions = <<>>
       \/ questions = <<>> /\ sessions \in InitSessionStores
    /\ NoArtifacts
    /\ nextId = 1
    /\ calls = 0
    /\ prev = NoCall
    /\ last = NoCall
    /\ NoRace

\* the tables a worksheet or lesson-plan tool works on, and the id counter
Tables ==
    [questions |-> questions, worksheets |-> worksheets,
     lessonPlans |-> lessonPlans, files |-> files, uid |-> nextId]

\* the tables as the tool leaves them
Leaves(st) ==
    /\ questions' = st.questions
    /\ worksheets' = st.worksheets
    /\ lessonPlans' = st.lessonPlans
    /\ files' = st.files
    /\ nextId' = st.uid

\* the agent calls create_worksheet
CreateWorksheetCall ==
    /\ Idle
    /\ \E a \in WorksheetArgs, faults \in FaultSets(WorksheetCalls),
          resp \in ToolResponses :
         LET env == [faults |-> faults, resp |-> resp, now |-> UtcNow(calls)]
             r == CreateWorksheet(Tables, a, env)
         IN /\ r.failed = faults
            /\ Leaves(r.st)
            /\ Returned([tool |-> "create_worksheet", args |-> a,
                         env |-> env, result |-> r.result,
                         failed |-> r.failed])
            /\ UNCHANGED sessions

\* the agent calls create_lesson_plan
CreateLessonPlanCall ==
    /\ Idle
    /\ \E a \in LessonArgs, faults \in FaultSets(LessonCalls),
          lresp \in LessonResponses :
         LET env == [faults |-> faults, lresp |-> lresp,
                     now |-> UtcNow(calls)]
             r == CreateLessonPlan(Tables, StudentsTable, GradeHistoryTable,
                                   a, env)
         IN /\ r.failed = faults
            /\ Leaves(r.st)
            /\ Returned([tool |-> "create_lesson_plan", args |-> a,
                         env |-> env, result |-> r.result,
                         failed |-> r.failed])
            /\ UNCHANGED sessions

\* create_lesson_with_worksheet is called
CreateLessonWithWorksheetCall ==
    /\ Idle
    /\ \E a \in PackageArgs,
          faults \in FaultSets((WorksheetCalls \ {"worksheet.get_item"})
                                  \cup LessonCalls),
          resp \in ToolResponses, lresp \in LessonResponses :
         LET env == [faults |-> faults, resp |-> resp, lresp |-> lresp,
                     now |-> UtcNow(calls)]
             r == CreateLessonWithWorksheet(Tables, StudentsTable,
                                            GradeHistoryTable, a, env)
         IN /\ r.failed = faults
            /\ Leaves(r.st)
            /\ Returned([tool |-> "create_lesson_with_worksheet",
                         args |-> a, env |-> env, result |-> r.result,
                         failed |-> r.failed, obs |-> r.obs])
            /\ UNCHANGED sessions

\* the agent calls query_students
QueryStudentsCall ==
    /\ Idle
    /\ \E student_name \in StudentNames, student_id \in StudentIds,
          storeOk \in BOOLEAN :
         /\ Returns([tool |-> "query_students",
                     args |-> [student_name |-> student_name,
                               student_id |-> student_id],
                     env |-> [readOk |-> storeOk],
                     result |-> QueryStudents(StudentsTable, student_name,
                                              student_id, storeOk)])
         /\ UNCHANGED <<questions, sessions, nextId>>

\* the agent reads the sessions
GetSessionsFirst == Idle /\ GetSessionsRuns

\* the agent calls query_question_topics
QueryQuestionTopicsCall ==
    /\ Idle
    /\ \E storeOk \in BOOLEAN :
         /\ Returns([tool |-> "query_question_topics",
                     args |-> NoItem,
                     env |-> [readOk |-> storeOk],
                     result |-> QueryQuestionTopics(questions, storeOk)])
         /\ UNCHANGED <<questions, sessions, nextId>>

NextTools ==
    \/ QueryQuestionTopicsCall
    \/ GenerateQuestionsCall
    \/ QueryQuestionsCall
    \/ QueryStudentsCall
    \/ CreateSessionFirst
    \/ GetSessionsFirst
    \/ CreateWorksheetCall
    \/ CreateLessonPlanCall
    \/ CreateLessonWithWorksheetCall

SpecTools == InitTools /\ [][NextTools]_vars

(***************************************************************************)
(* create_worksheet without question_ids, one call: the tool looks for     *)
(* questions of the topic and difficulty and asks generate_questions for   *)
(* the ones that are missing.                                              *)
(***************************************************************************)
\* banks with fewer matching questions than a worksheet takes, with as
\* many, and with a match that lies behind the scan limit of the tool
AutoStores ==
    { <<>>,
      <<BankQuestion(1, "Fractions", "Easy"),
        BankQuestion(2, "Algebra", "Medium"),
        BankQuestion(3, "Algebra", "Medium")>>,
      [n \in 1..(WorksheetQuestionCount - 1) |->
          BankQuestion(n, "Algebra", "Medium")],
      [n \in 1..WorksheetQuestionCount |->
          BankQuestion(n, "Algebra", "Medium")],
      [n \in 1..(WorksheetQuestionCount + 1) |->
          BankQuestion(n, IF n <= WorksheetQuestionCount THEN "Fractions"
                          ELSE "Algebra", "Hard")] }

\* the difficulty_level values: the documented ones and the stored labels
AutoLevels ==
    {"beginner", "intermediate", "advanced", "Easy", "Medium", "Hard"}

AutoArgs ==
    [title : {"Algebra Quiz"}, subject : {"Mathematics"},
     grade_level : {"7"}, topic : {"Algebra"},
     difficulty_level : AutoLevels, question_ids : {<<>>},
     include_answer_key : {TRUE}, format : {"pdf"}, student_id : {None}]

\* the model's answers to the question prompt: no JSON, an empty array,
\* a short array, and more entries than a worksheet takes
AutoResponses ==
    {[kind |-> "invalid"]}
      \cup {[kind |-> "array", items |-> ModelItems(n, 0)] :
               n \in {0, MaxModelItems, WorksheetQuestionCount + 1}}

AutoCalls ==
    {"worksheet.search_questions", "generate.search_questions",
     "generate.converse", "generate.put_item", "worksheet.put_item"}

InitAutoWorksheet ==
    /\ questions \in AutoStores
    /\ sessions = <<>>
    /\ NoArtifacts
    /\ nextId = 1
    /\ calls = 0
    /\ prev = NoCall
    /\ last = NoCall
    /\ NoRace

AutoWorksheetCall ==
    /\ Idle
    /\ \E a \in AutoArgs, faults \in FaultSets(AutoCalls),
          resp \in AutoResponses :
         LET env == [faults |-> faults, resp |-> resp, now |-> UtcNow(calls)]
         IN \E r \in {CreateWorksheet(Tables, a, env)} :
              /\ r.failed = faults
              /\ Leaves(r.st)
              /\ Returned([tool |-> "create_worksheet", args |-> a,
                           env |-> env, result |-> r.result,
                           failed |-> r.failed])
              /\ UNCHANGED sessions

NextAutoWorksheet == AutoWorksheetCall

SpecAutoWorksheet == InitAutoWorksheet /\ [][NextAutoWorksheet]_vars

(***************************************************************************)
(* A lesson plan for a session: the agent creates or finds the session and *)
(* calls create_lesson_plan the way the system prompt says, with           *)
(* session_id and session_date next to the arguments of the tool.          *)
(***************************************************************************)
\* the parameters create_lesson_plan declares
LessonPlanParams ==
    {"content_source_type", "content_source_data", "duration", "grade_level",
     "learning_objectives", "include_assessment", "include_materials",
     "student_id", "worksheet_id"}

\* the arguments that reach the function body: those it declares
Declared(a) == [k \in DOMAIN a \cap LessonPlanParams |-> a[k]]

\* the call the system prompt prescribes for the stored session s
SessionLessonArgs(s) ==
    { [content_source_type |-> type,
       content_source_data |-> IF type = "student_profile"
                               THEN s.student_id ELSE "Fractions",
       duration |-> s.duration, grade_level |-> "7",
       learning_objectives |-> <<>>, include_assessment |-> TRUE,
       include_materials |-> TRUE, student_id |-> s.student_id,
       worksheet_id |-> None,
       session_id |-> s.session_id, session_date |-> s.date] :
        type \in {"student_profile", "topic"} }

\* what the tool runtime does with arguments the function does not declare:
\* it leaves them out of the call, or the call fails before the body runs
UndeclaredArgs == {"dropped", "rejected"}

\* a call that never entered the function
TypeErrorRaised ==
    Raise("create_lesson_plan() got an unexpected keyword argument 'session_id'")

\* the agent calls create_lesson_plan for a session of the table
CreateLessonPlanForSession ==
    /\ calls <= 1
    /\ last.tool # "create_lesson_plan"
    /\ \E i \in 1..Len(sessions), runtime \in UndeclaredArgs :
         \E a \in SessionLessonArgs(sessions[i]) :
           \/ /\ runtime = "rejected"
              /\ Returns([tool |-> "create_lesson_plan", args |-> a,
                          env |-> [runtime |-> runtime],
                          result |-> TypeErrorRaised, failed |-> {}])
              /\ UNCHANGED <<questions, sessions, nextId>>
           \/ /\ runtime = "dropped"
              /\ \E faults \in FaultSets(LessonCalls),
                    lresp \in LessonResponses :
                   LET env == [faults |-> faults, lresp |-> lresp,
                               now |-> UtcNow(calls), runtime |-> runtime]
                       r == CreateLessonPlan(Tables, StudentsTable,
                                             GradeHistoryTable, Declared(a),
                                             env)
                   IN /\ r.failed = faults
                      /\ Leaves(r.st)
                      /\ Returned([tool |-> "create_lesson_plan",
                                   args |-> a, env |-> env,
                                   result |-> r.result,
                                   failed |-> r.failed])
                      /\ UNCHANGED sessions

NextSessionLesson ==
    \/ CreateSessionFirst
    \/ CreateLessonPlanForSession

SpecSessionLesson == InitSession /\ [][NextSessionLesson]_vars

(***************************************************************************)
(* One chat: user messages and tool calls in whatever order the agent      *)
(* makes them.  The tools are the functions registered with the agent;     *)
(* a call is a plain call of the function.                                 *)
(***************************************************************************)
\* the banks and session tables a chat starts from
ChatStores ==
    { <<>>,
      <<BankQuestion(1, "Fractions", "Easy"),
        BankQuestion(2, "Fractions", "Easy")>> }

ChatSessions == {<<>>, <<StoredSession("s2", "2026-01-05", "09:00", None)>>}

InitChat ==
    /\ questions \in ChatStores
    /\ sessions \in ChatSessions
    /\ NoArtifacts
    /\ nextId = 1
    /\ calls = 0
    /\ prev = NoCall
    /\ last = NoCall
    /\ NoRace

\* what the user may write: a request, or the answer to a question of the
\* agent
UserMessages == {"create a fractions worksheet", "yes, go ahead", "no"}

\* the model answers the generation prompt with an array of objects, or the
\* call raises
ChatResponses ==
    {[kind |-> "raise"],
     [kind |-> "array", items |-> ModelItems(MaxModelItems, 0)]}

ChatGenArgs ==
    [topic : {"Fractions"}, difficulty_level : {"beginner"},
     question_count : {1, MaxQuestionCount}, question_type : {"mixed"},
     subject_area : {None}]

ChatWorksheetArgs ==
    [title : {"Fractions Quiz"}, subject : {"Mathematics"},
     grade_level : {"7"}, topic : {"Fractions"},
     difficulty_level : {"beginner"}, question_ids : {<<>>},
     include_answer_key : {TRUE}, format : {"pdf"}, student_id : {None}]

ChatLessonArgs ==
    [content_source_type : {"topic"}, content_source_data : {"Fractions"},
     duration : {45}, grade_level : {"7"}, learning_objectives : {<<>>},
     include_assessment : {TRUE}, include_materials : {TRUE},
     student_id : {None}, worksheet_id : {None}]

ChatSessionArgs ==
    [student_id : {"s2"}, session_date : SessionDates, time : {"14:00"},
     duration : {60}, lesson_plan_id : {None}, notes : {None}]

\* agent_chat is called with a message of the user
UserMessage ==
    /\ calls < MaxCalls
    /\ \E message \in UserMessages :
         Returns([tool |-> "user_message", args |-> [message |-> message]])
    /\ UNCHANGED <<questions, sessions, nextId>>

ChatTopics ==
    /\ calls < MaxCalls
    /\ Returns([tool |-> "query_question_topics", args |-> NoItem,
                env |-> [readOk |-> TRUE],
                result |-> QueryQuestionTopics(questions, TRUE)])
    /\ UNCHANGED <<questions, sessions, nextId>>

ChatQuery ==
    /\ calls < MaxCalls
    /\ Returns([tool |-> "query_questions",
                args |-> [topic |-> "Fractions", difficulty |-> "Easy",
                          limit |-> DefaultSearchLimit],
                env |-> [readOk |-> TRUE],
                result |-> QueryQuestions(questions, "Fractions", "Easy",
                                          DefaultSearchLimit, TRUE)])
    /\ UNCHANGED <<questions, sessions, nextId>>

\* a generate_questions that is refused unless a question search came
\* right before it
ChatGenerateAfterSearch ==
    /\ calls < MaxCalls
    /\ \E a \in ChatGenArgs, resp \in ChatResponses :
         LET env == [readOk |-> TRUE, resp |-> resp, putFail |-> 0,
                     front |-> FALSE, now |-> UtcNow(calls)]
         IN \E r \in {GenerateQuestions(questions, nextId, a, env)} :
              IF last.tool = "query_questions"
              THEN /\ questions' = r.tbl
                   /\ nextId' = r.uid
                   /\ Returns([tool |-> "generate_questions", args |-> a,
                               env |-> env, result |-> r.result,
                               obs |-> r.obs])
                   /\ UNCHANGED sessions
              ELSE /\ Returns([tool |-> "generate_questions", args |-> a,
                               env |-> env,
                               result |-> [success |-> FALSE,
                                           error |-> "search the bank first",
                                           questions |-> <<>>],
                               obs |-> [searched |-> FALSE, found |-> 0,
                                        model_called |-> FALSE,
                                        failed |-> {}]])
                   /\ UNCHANGED <<questions, sessions, nextId>>

ChatGenerate ==
    /\ calls < MaxCalls
    /\ \E a \in ChatGenArgs, resp \in ChatResponses :
         LET env == [readOk |-> TRUE, resp |-> resp, putFail |-> 0,
                     front |-> FALSE, now |-> UtcNow(calls)]
         IN \E r \in {GenerateQuestions(questions, nextId, a, env)} :
              /\ questions' = r.tbl
              /\ nextId' = r.uid
              /\ Returns([tool |-> "generate_questions", args |-> a,
                          env |-> env, result |-> r.result, obs |-> r.obs])
              /\ UNCHANGED sessions

ChatWorksheet ==
    /\ calls < MaxCalls
    /\ \E a \in ChatWorksheetArgs, resp \in ChatResponses :
         LET env == [faults |-> {}, resp |-> resp, now |-> UtcNow(calls)]
         IN \E r \in {CreateWorksheet(Tables, a, env)} :
              /\ Leaves(r.st)
              /\ Returned([tool |-> "create_worksheet", args |-> a,
                           env |-> env, result |-> r.result,
                           failed |-> r.failed])
              /\ UNCHANGED sessions

ChatLessonPlan ==
    /\ calls < MaxCalls
    /\ \E a \in ChatLessonArgs, lresp \in LessonResponses :
         LET env == [faults |-> {}, lresp |-> lresp, now |-> UtcNow(calls)]
         IN \E r \in {CreateLessonPlan(Tables, StudentsTable,
                                       GradeHistoryTable, a, env)} :
              /\ Leaves(r.st)
              /\ Returned([tool |-> "create_lesson_plan", args |-> a,
                           env |-> env, result |-> r.result,
                           failed |-> r.failed])
              /\ UNCHANGED sessions

ChatSession ==
    /\ calls < MaxCalls
    /\ \E a \in ChatSessionArgs :
         LET env == [putOk |-> TRUE, front |-> FALSE, now |-> UtcNow(calls)]
             r == CreateSession(sessions, a, env)
         IN /\ sessions' = r.tbl
            /\ Returns([tool |-> "create_session", args |-> a, env |-> env,
                        result |-> r.result])
            /\ UNCHANGED <<questions, nextId>>

NextChat ==
    \/ UserMessage
    \/ ChatTopics
    \/ ChatQuery
    \/ ChatGenerate
    \/ ChatWorksheet
    \/ ChatLessonPlan
    \/ ChatSession

SpecChat == InitChat /\ [][NextChat]_vars

(***************************************************************************)
(* One request to the chat endpoint: the agent makes up to two tool calls, *)
(* then agent_chat builds the response from the agent's result.            *)
(***************************************************************************)
ChatPackageArgs ==
    [topic : {"Fractions"}, duration : {45}, grade_level : {"7"},
     subject : {"Mathematics"}, student_id : {None},
     difficulty_level : {"beginner"},
     question_count : {1, PackageQuestionCount},
     content_source_type : {"topic"}, include_answer_key : {TRUE}]

ChatRequests ==
    [message : {"create a fractions worksheet"},
     conversation_id : {None, "c1"}]

\* the final message of the agent
AgentMessages ==
    {[role |-> "assistant", content |-> <<[text |-> "Done."]>>],
     [role |-> "assistant", content |-> <<>>]}

\* the calls the agent made for this request, oldest first
ChatTrace == SelectSeq(<<prev, last>>, LAMBDA c : c.tool # "none")

\* the result object of the agent runtime for a trace of tool calls: with
\* the tool outputs (tool_results), with the calls only (tool_calls), or
\* with the message alone
AgentResults(trace) ==
    UNION {
      { [message |-> msg,
         tool_results |-> [i \in DOMAIN trace |->
                             [name |-> trace[i].tool,
                              input |-> trace[i].args,
                              output |-> trace[i].result]]],
        [message |-> msg,
         tool_calls |-> [i \in DOMAIN trace |->
                           [name |-> trace[i].tool,
                            arguments |-> trace[i].args]]],
        [message |-> msg] } : msg \in AgentMessages }

ChatPackage ==
    /\ calls < MaxCalls
    /\ \E a \in ChatPackageArgs, resp \in ChatResponses,
          lresp \in LessonResponses :
         LET env == [faults |-> {}, resp |-> resp, lresp |-> lresp,
                     now |-> UtcNow(calls)]
         IN \E r \in {CreateLessonWithWorksheet(Tables, StudentsTable,
                                                GradeHistoryTable, a, env)} :
              /\ Leaves(r.st)
              /\ Returned([tool |-> "create_lesson_with_worksheet",
                           args |-> a, env |-> env, result |-> r.result,
                           failed |-> r.failed])
              /\ UNCHANGED sessions

\* a tool call of the agent while it works on the request
AgentToolCall ==
    /\ prev = NoCall
    /\ last.tool # "agent_chat"
    /\ (ChatQuery \/ ChatWorksheet \/ ChatPackage)

\* the agent returns and agent_chat answers the request
AgentChatCall ==
    /\ last.tool # "agent_chat"
    /\ \E request \in ChatRequests, result \in AgentResults(ChatTrace) :
         Returns([tool |-> "agent_chat",
                  args |-> [request |-> request, result |-> result],
                  result |-> AgentChat(request, result)])
    /\ UNCHANGED <<questions, sessions, nextId>>

NextAgentChat ==
    \/ AgentToolCall
    \/ AgentChatCall

SpecAgentChat == InitChat /\ [][NextAgentChat]_vars

(***************************************************************************)
(* The AI services behind the HTTP endpoints, one call each, with the      *)
(* model answering in every way it can.                                    *)
(***************************************************************************)
InitServices ==
    /\ questions = <<>>
    /\ sessions = <<>>
    /\ NoArtifacts
    /\ nextId = 1
    /\ calls = 0
    /\ prev = NoCall
    /\ last = NoCall
    /\ NoRace

\* a service function returns; it writes nothing
Served(call) ==
    /\ Returns(call)
    /\ UNCHANGED <<questions, sessions, nextId>>

SelectQuestionsCall ==
    /\ Idle
    /\ \E n \in SelectionSizes, noText \in BOOLEAN,
          criteria \in SelectionCriteria,
          resp \in ModelAnswers(SelectionBodies) :
        /\ noText => n > 0
        /\ \E r \in {SelectQuestionsWithAi(SelectionQuestions(n, noText),
                                           criteria, resp)} :
              /\ r.model_called \/ resp.kind = "raise"
              /\ Served([tool |-> "select_questions_with_ai",
                         args |-> [questions |->
                                       SelectionQuestions(n, noText),
                                   criteria |-> criteria],
                         env |-> [resp |-> resp], result |-> r])

GradeWorksheetCall ==
    /\ Idle
    /\ \E extracted_text \in GradingTexts, student_name \in {"Ada Lim"},
          resp \in ModelAnswers(GradingBodies) :
         Served([tool |-> "grade_worksheet_with_ai",
                 args |-> [extracted_text |-> extracted_text,
                           student_name |-> student_name],
                 env |-> [resp |-> resp],
                 result |-> GradeWorksheetWithAi(extracted_text,
                                                 student_name, resp)])

ParseQuestionsCall ==
    /\ Idle
    /\ \E lines \in ExtractedTexts,
          resp \in ModelAnswers(SegmentationBodies) :
         \E r \in {ParseQuestionsWithAi(lines, resp)} :
           /\ r.model_called \/ resp.kind = "raise"
           /\ Served([tool |-> "parse_questions_with_ai",
                      args |-> [text |-> lines],
                      env |-> [resp |-> resp], result |-> r])

NextServices ==
    \/ SelectQuestionsCall
    \/ GradeWorksheetCall
    \/ ParseQuestionsCall

SpecServices == InitServices /\ [][NextServices]_vars

(***************************************************************************)
(* The read accessors of the persistence layer, one call each, with the    *)
(* store answering or raising.                                             *)
(***************************************************************************)
InitAccessors ==
    /\ \/ questions \in InitQuestionStores /\ sessions = <<>>
       \/ questions = <<>> /\ sessions \in InitSessionStores
    /\ NoArtifacts
    /\ nextId = 1
    /\ calls = 0
    /\ prev = NoCall
    /\ last = NoCall
    /\ NoRace

\* an accessor returns; it writes nothing
Read(accessor, args, storeOk, result) ==
    /\ Idle
    /\ Returns([tool |-> accessor, args |-> args,
                env |-> [readOk |-> storeOk], result |-> result])
    /\ UNCHANGED <<questions, sessions, nextId>>

GetStudentByNameCall ==
    \E name \in StudentNames \ {None}, storeOk \in BOOLEAN :
        Read("db.get_student_by_name", [name |-> name], storeOk,
             GetStudentByName(StudentsTable, name, storeOk))

GetStudentByIdCall ==
    \E student_id \in StudentIds \ {None}, storeOk \in BOOLEAN :
        Read("db.get_student_by_id", [student_id |-> student_id], storeOk,
             GetStudentById(StudentsTable, student_id, storeOk))

GetAllStudentsCall ==
    \E storeOk \in BOOLEAN :
        Read("db.get_all_students", NoItem, storeOk,
             GetAllStudents(StudentsTable, storeOk))

GetGradeHistoryCall ==
    \E student_id \in {"s1", "s2"}, limit \in HistoryLimits,
       storeOk \in BOOLEAN :
        Read("db.get_grade_history",
             [student_id |-> student_id, limit |-> limit], storeOk,
             GetGradeHistory(GradeHistoryTable, student_id, limit, storeOk))

SearchQuestionsCall ==
    \E topic \in QueryTopics, difficulty \in QueryDifficulties,
       limit \in QueryLimits, storeOk \in BOOLEAN :
        Read("db.search_questions",
             [topic |-> topic, difficulty |-> difficulty, limit |-> limit],
             storeOk,
             SearchQuestions(questions, topic, difficulty, limit, storeOk))

DbGetScheduleCall ==
    \E student_id \in StudentIds, storeOk \in BOOLEAN :
        Read("db.get_schedule", [student_id |-> student_id], storeOk,
             DbGetSchedule(SchedulesTable, student_id, storeOk))

DbGetSessionsCall ==
    \E a \in GetSessionsArgs, storeOk \in BOOLEAN :
        Read("db.get_sessions", a, storeOk,
             DbGetSessions(sessions, a.student_id,
                           DateRange(a.start_date, a.end_date), a.limit,
                           storeOk))

NextAccessors ==
    \/ GetStudentByNameCall
    \/ GetStudentByIdCall
    \/ GetAllStudentsCall
    \/ GetGradeHistoryCall
    \/ SearchQuestionsCall
    \/ DbGetScheduleCall
    \/ DbGetSessionsCall

SpecAccessors == InitAccessors /\ [][NextAccessors]_vars

(***************************************************************************)
(* Two chat sessions call generate_questions at the same time.  Each call  *)
(* is a sequence of steps, one per external call it makes; the steps of    *)
(* the two calls interleave.                                               *)
(***************************************************************************)
InitRace ==
    /\ questions \in RaceStores
    /\ sessions = <<>>
    /\ NoArtifacts
    /\ nextId = 1
    /\ calls = 0
    /\ prev = NoCall
    /\ last = NoCall
    /\ pc = [p \in Procs |-> "start"]
    /\ \E a \in RaceArgs : loc = [p \in Procs |-> [args |-> a]]

\* call p is over with this result
RaceDone(p, l, result) ==
    /\ pc' = [pc EXCEPT ![p] = "done"]
    /\ loc' = [loc EXCEPT ![p] = l @@ [result |-> result]]

\* the validation and the existence check of call p
RaceCheck(p) ==
    /\ pc[p] = "start"
    /\ \E readOk \in BOOLEAN :
         LET a == loc[p].args
             existing == SearchQuestions(questions, a.topic, None,
                                         DefaultSearchLimit, readOk)
             matching == GQMatching(questions, a, readOk)
             questions_needed == a.question_count - Len(matching)
             l == [args |-> a, readOk |-> readOk, existing |-> existing,
                   matching |-> matching, found |-> Len(matching),
                   questions_needed |-> questions_needed,
                   question_count |->
                       IF questions_needed > 0 /\ Len(matching) > 0
                       THEN questions_needed ELSE a.question_count]
         IN IF EnoughExisting(matching, a.question_count)
            THEN RaceDone(p, l, GQExisting(matching, a.question_count))
            ELSE /\ pc' = [pc EXCEPT ![p] = "checked"]
                 /\ loc' = [loc EXCEPT ![p] = l]
    /\ UNCHANGED <<questions, sessions, artifacts, nextId, calls, prev, last>>

\* the model answers call p
RaceConverse(p) ==
    /\ pc[p] = "checked"
    /\ \E resp \in RaceResponses :
         LET l == loc[p] @@ [resp |-> resp]
             parsed == GQParse(resp)
         IN IF resp.kind = "raise"
            THEN RaceDone(p, l, GQRaised("model invocation failed"))
            ELSE IF ~parsed.ok
            THEN RaceDone(p, l, GQParseFailed)
            ELSE /\ pc' = [pc EXCEPT ![p] = "storing"]
                 /\ loc' = [loc EXCEPT ![p] =
                       l @@ [slice |-> GQSlice(parsed.items,
                                               l.questions_needed,
                                               l.question_count),
                             i |-> 1, stored |-> <<>>, putFailed |-> FALSE]]
    /\ UNCHANGED <<questions, sessions, artifacts, nextId, calls, prev, last>>

\* call p runs one turn of its storing loop
RacePut(p) ==
    /\ pc[p] = "storing"
    /\ loc[p].i <= Len(loc[p].slice)
    /\ \E putOk \in BOOLEAN :
         LET l == loc[p]
             ctx == [normalized_topic |->
                         NormalizedTopic(l.existing, l.args.topic),
                     internal |-> DifficultyMap(l.args.difficulty_level),
                     subject_area |-> l.args.subject_area,
                     question_type |-> l.args.question_type,
                     now |-> UtcNow(p)]
             acc == GQStoreOne([tbl |-> questions, uid |-> nextId,
                                stored |-> l.stored, exc |-> None],
                               l.slice[l.i], ctx, putOk, FALSE)
             m == [l EXCEPT !.i = @ + 1, !.stored = acc.stored,
                            !.putFailed = ~putOk]
         IN /\ questions' = acc.tbl
            /\ nextId' = acc.uid
            /\ IF acc.exc # None
               THEN RaceDone(p, m, GQRaised(acc.exc))
               ELSE /\ pc' = pc
                    /\ loc' = [loc EXCEPT ![p] = m]
    /\ UNCHANGED <<sessions, artifacts, calls, prev, last>>

\* call p leaves the storing loop and returns
RaceReturn(p) ==
    /\ pc[p] = "storing"
    /\ loc[p].i > Len(loc[p].slice)
    /\ RaceDone(p, loc[p],
                GQResult(loc[p].matching, loc[p].stored,
                         loc[p].question_count, loc[p].questions_needed))
    /\ UNCHANGED <<questions, sessions, artifacts, nextId, calls, prev, last>>

NextRace ==
    \E p \in Procs :
        \/ RaceCheck(p)
        \/ RaceConverse(p)
        \/ RacePut(p)
        \/ RaceReturn(p)

SpecRace == InitRace /\ [][NextRace]_vars

(***************************************************************************)
(* Properties of generate_questions and query_questions.                   *)
(***************************************************************************)
Range(seq) == {seq[i] : i \in 1..Len(seq)}

\* a step that is a generate_questions call with a valid question_count
GenStep ==
    /\ Idle /\ calls' = 1
    /\ last'.tool = "generate_questions"
    /\ last'.args.question_count \in 1..MaxQuestionCount

\* the records of the whole table on the topic and of the mapped difficulty
StoreMatching(tbl, a) ==
    SelectSeq(tbl,
              LAMBDA q :
                /\ "topic" \in DOMAIN q /\ Contains(q.topic, a.topic)
                /\ Lower(Get(q, "difficulty", ""))
                     = Lower(DifficultyMap(a.difficulty_level)))

\* the number of records the storing loop writes: one per entry of the
\* model's array, up to the number needed, before the first entry that is
\* no object or whose write fails
WrittenCount(env, needed) ==
    IF env.resp.kind # "array" THEN 0
    ELSE LET n == Min(Len(env.resp.items), needed)
             stops == {i \in 1..n : env.resp.items[i].type # "object"
                                      \/ env.putFail = i}
         IN IF stops = {} THEN n
            ELSE (CHOOSE i \in stops : \A j \in stops : i <= j) - 1

\* C1: a generate_questions call with question_count K against a store that
\* holds at least K records on the topic and of the mapped difficulty leaves
\* the table unchanged and does not call the model (stated for the calls
\* whose scan of the store succeeds).
C1_NoCreationWhenEnoughExist ==
    [][GenStep /\ last'.env.readOk
          /\ Len(StoreMatching(questions, last'.args))
                >= last'.args.question_count
         => questions' = questions /\ ~last'.obs.model_called]_vars

C3_AsStated ==
    [][LET a == last'.args
           E == Len(StoreMatching(questions, a))
       IN GenStep /\ 0 < E /\ E < a.question_count /\ last'.result.success
            => /\ Len(last'.result.questions) = a.question_count
               /\ last'.result.count = a.question_count
               /\ last'.result.source = "mixed"
      ]_vars

\* C3: when the existence check finds 0 < E < K records, a successful result
\* lists those E followed by the n records the call created, count E + n,
\* and its source is "mixed" if n > 0 and "database" if n = 0; n = K - E
\* (and so count K, source "mixed") when the model's array has at least
\* K - E entries.
C3_ExistingThenCreated ==
    [][LET a == last'.args
           found == GQMatching(questions, a, last'.env.readOk)
           E == Len(found)
           res == last'.result
           n == Len(questions') - Len(questions)
       IN GenStep /\ 0 < E /\ E < a.question_count /\ res.success
            => /\ Len(res.questions) = E + n
               /\ SubSeq(res.questions, 1, E) = found
               /\ Range(SubSeq(res.questions, E + 1, E + n))
                     = Range(questions') \ Range(questions)
               /\ res.count = E + n
               /\ res.source = (IF n > 0 THEN "mixed" ELSE "database")
               /\ Len(last'.env.resp.items) >= a.question_count - E
                     => res.count = a.question_count /\ res.source = "mixed"
      ]_vars

\* a successful call returned some existing and some new records, K in all
C3_Witness ==
    /\ last.tool = "generate_questions"
    /\ last.result.success
    /\ last.result.source = "mixed"
    /\ last.obs.found > 0
    /\ last.obs.found < last.args.question_count
    /\ last.result.count = last.args.question_count
    /\ Len(last.result.questions) = last.args.question_count

\* C9: every record query_questions (and so search_questions, whose list it
\* returns) gives back has the requested difficulty, if one was given, and
\* a topic that contains the requested topic as a case-sensitive substring,
\* if one was given.
C9_ReturnedRecordsMatch ==
    last.tool = "query_questions" =>
        \A q \in Range(last.result.questions) :
           /\ last.args.difficulty \notin {None, ""}
                 => q.difficulty = last.args.difficulty
           /\ last.args.topic \notin {None, ""}
                 => \E i \in 1..Len(q.topic) :
                       SubSeq(q.topic, i, i + Len(last.args.topic) - 1)
                          = last.args.topic

\* a query by topic and difficulty returned some records of a store that
\* holds others too, one of them on the same topic in another case
C9_Witness ==
    /\ last.tool = "query_questions"
    /\ last.args.topic = "Fractions"
    /\ last.args.difficulty \in {"Easy", "Medium"}
    /\ last.result.count > 0
    /\ \E q \in Range(questions) :
          q.topic = "fractions" /\ q \notin Range(last.result.questions)

(***************************************************************************)
(* Properties of create_session and get_sessions, and of reading back.     *)
(***************************************************************************)
\* the records of a table under a key
WithKey(tbl, key, id) == {i \in 1..Len(tbl) : tbl[i][key] = id}

\* C7: the id of the session create_session creates for a date YYYY-MM-DD
\* and a student is sess_YYYYMMDD_<student_id>, the same for the same date
\* and student whatever the other inputs are; after a successful call the
\* sessions table holds exactly one record with that id, the one the call
\* reports, and a call on a date and student that have a session already
\* replaces that record and adds none.
C7_SessionIdOverwrites ==
    [][last'.tool = "create_session" /\ calls' = calls + 1
          /\ last'.result.success
         => LET a == last'.args
                d == a.session_date
                w == last'.result.session
            IN /\ w.session_id = "sess_" \o SubSeq(d, 1, 4) \o SubSeq(d, 6, 7)
                                    \o SubSeq(d, 9, 10) \o "_" \o a.student_id
               /\ (last.tool = "create_session" /\ last.result.success
                     /\ last.args.session_date = d
                     /\ last.args.student_id = a.student_id)
                    => last.result.session.session_id = w.session_id
               /\ Cardinality(WithKey(sessions', "session_id", w.session_id)) = 1
               /\ \A i \in WithKey(sessions', "session_id", w.session_id) :
                     sessions'[i] = w
               /\ WithKey(sessions, "session_id", w.session_id) # {}
                    => Len(sessions') = Len(sessions)
               /\ \A i \in 1..Len(sessions) :
                     sessions[i].session_id # w.session_id
                       => sessions'[i] = sessions[i]
      ]_vars

\* a session was created twice with the same inputs, and one record is there
C7_Witness ==
    /\ prev.tool = "create_session" /\ prev.result.success
    /\ last.tool = "create_session" /\ last.result.success
    /\ prev.args = last.args
    /\ Len(sessions) = 1
    /\ sessions[1] = last.result.session
    /\ sessions[1].session_id = prev.result.session.session_id
    /\ sessions[1].created_at # prev.result.session.created_at

\* the new records a generate_questions call stored and reported
NewQuestions(call) ==
    LET n == Get(call.result, "generated_count", 0)
        all == call.result.questions
    IN Range(SubSeq(all, Len(all) - n + 1, Len(all)))

RaceBothPassedCheck ==
    /\ \A p \in Procs :
         /\ pc[p] = "done"
         /\ "slice" \in DOMAIN loc[p]
         /\ loc[p].readOk
         /\ ~loc[p].putFailed
         /\ Len(loc[p].resp.items)
              >= loc[p].args.question_count - loc[p].found
    /\ loc[1].found = loc[2].found
    /\ loc[1].found < loc[1].args.question_count

\* C4: two concurrent generate_questions calls with the same topic,
\* difficulty and target K that both pass the existence check with E < K
\* matching records are both carried through: neither is refused, each
\* writes its K - E records, and the bank ends with 2K - E > K matching
\* records.
C4_BothCallsWrite ==
    RaceBothPassedCheck =>
        LET a == loc[1].args
            K == a.question_count
            E == loc[1].found
        IN /\ \A p \in Procs :
                /\ loc[p].result.success
                /\ Len(loc[p].stored) = K - E
           /\ Len(StoreMatching(questions, a)) = 2 * K - E
           /\ Len(StoreMatching(questions, a)) > K

C4_Witness ==
    /\ RaceBothPassedCheck
    /\ \A p \in Procs : loc[p].result.success
    /\ Len(StoreMatching(questions, loc[1].args))
         = 2 * loc[1].args.question_count - loc[1].found
    /\ Len(StoreMatching(questions, loc[1].args)) > loc[1].args.question_count
    /\ loc[1].found > 0

(***************************************************************************)
(* Properties of the worksheet and lesson-plan tools and of the failure    *)
(* policy of the tool layer.                                               *)
(***************************************************************************)
PackageCall == last.tool = "create_lesson_with_worksheet"

\* the record of the table with this id under this key, if any
Stored(tbl, key, id) == SelectSeq(tbl, LAMBDA r : r[key] = id)

\* C5: when create_lesson_with_worksheet has created the worksheet and its
\* lesson-plan step reports a failure, the tool returns success = false
\* with an error message, no lesson-plan id, and the id of the created
\* worksheet; the worksheet record stays in the table (unless its own write
\* was lost) and no lesson plan is stored.
C5_PartialFailureReportsWorksheet ==
    (PackageCall /\ last.obs.worksheet.success /\ ~last.obs.lesson.success)
      => /\ ~last.result.success
         /\ "error" \in DOMAIN last.result
         /\ last.result.lesson_plan_id = None
         /\ last.result.worksheet_id # None
         /\ last.result.worksheet_id = last.obs.worksheet.worksheet_id
         /\ last.result.worksheet_url = last.obs.worksheet.file_url
         /\ "worksheet.put_item" \notin last.failed
               => Len(Stored(worksheets, "worksheet_id",
                             last.result.worksheet_id)) = 1
         /\ lessonPlans = <<>>

C5_Witness ==
    /\ PackageCall
    /\ last.obs.worksheet.success
    /\ ~last.obs.lesson.success
    /\ "lesson.converse" \in last.failed
    /\ last.result.worksheet_id # None
    /\ Len(Stored(worksheets, "worksheet_id", last.result.worksheet_id)) = 1

\* C6: create_lesson_with_worksheet goes on to the lesson plan only when
\* create_worksheet returned success.  If it did not, the tool returns
\* success = false with both ids None, no call of the lesson-plan step is
\* made and no lesson plan is stored.  If the tool returns success, the
\* lesson plan it returns, and the one stored under its id, carry the id of
\* the worksheet created in the same call.
C6_LessonAfterWorksheet ==
    PackageCall =>
      /\ last.obs.lesson_called <=> last.obs.worksheet.success
      /\ ~last.obs.worksheet.success
            => /\ ~last.result.success
               /\ last.result.lesson_plan_id = None
               /\ last.result.worksheet_id = None
               /\ last.failed \cap LessonCalls = {}
               /\ lessonPlans = <<>>
               /\ worksheets = <<>>
      /\ last.result.success
            => /\ last.obs.worksheet.success
               /\ last.result.worksheet_id = last.obs.worksheet.worksheet_id
               /\ last.result.worksheet_id # None
               /\ "worksheet_id" \in DOMAIN last.result.package.lesson_plan
               /\ last.result.package.lesson_plan.worksheet_id
                     = last.result.worksheet_id
               /\ lessonPlans
                     = IF "lesson.put_item" \in last.failed THEN <<>>
                       ELSE <<last.result.package.lesson_plan>>
               /\ \A i \in 1..Len(lessonPlans) :
                     /\ lessonPlans[i].lesson_plan_id
                           = last.result.lesson_plan_id
                     /\ lessonPlans[i].worksheet_id
                           = last.result.worksheet_id

C6_Witness ==
    /\ PackageCall
    /\ last.result.success
    /\ Len(lessonPlans) = 1
    /\ Len(worksheets) = 1
    /\ lessonPlans[1].worksheet_id = worksheets[1].worksheet_id
    /\ lessonPlans[1].lesson_plan_id = last.result.lesson_plan_id

\* the external calls that failed during a tool call
Failed(call) ==
    IF call.tool = "generate_questions" THEN call.obs.failed
    ELSE IF call.tool \in {"query_question_topics", "query_questions",
                           "get_sessions", "query_students"}
    THEN (IF call.env.readOk THEN {} ELSE {call.tool \o ".read"})
    ELSE IF call.tool = "create_session"
    THEN (IF call.env.putOk THEN {} ELSE {"create_session.put_item"})
    ELSE call.failed

\* the failed calls whose exception reaches the handler of the tool
ReachHandler(tool) ==
    IF tool = "generate_questions"
    THEN {"generate.converse", "generate.put_item"}
    ELSE IF tool = "query_question_topics" THEN {tool \o ".read"}
    ELSE IF tool = "create_session" THEN {"create_session.put_item"}
    ELSE IF tool = "create_worksheet" THEN {"worksheet.get_item"}
    ELSE IF tool \in {"create_lesson_plan", "create_lesson_with_worksheet"}
    THEN {"lesson.converse"}
    ELSE {}

\* the failed calls that are caught below the handler and leave the tool
\* on its way to success
Swallowed(tool) ==
    IF tool \in {"query_questions", "get_sessions"} THEN {tool \o ".read"}
    ELSE IF tool = "create_worksheet"
    THEN {"worksheet.get_student_by_id", "worksheet.put_object",
          "worksheet.put_item"}
    ELSE IF tool = "create_lesson_plan" THEN {"lesson.put_item"}
    ELSE {}

\* C10 as stated: whenever an external call fails during a tool call, the
\* tool returns success = false with an error message.
C10_AsStated ==
    (last.tool # "none" /\ Failed(last) # {})
      => /\ ~IsExc(last.result)
         /\ ~last.result.success
         /\ "error" \in DOMAIN last.result

\* C10: no tool raises, and a result with success = false carries an error
\* message.  A failed external call gives success = false when its
\* exception reaches the tool's handler (the scan of
\* query_question_topics, the model call and the question write of
\* generate_questions, the write of create_session, get_item in
\* create_worksheet, the model call of create_lesson_plan).  A failed call
\* caught below the handler does not: a failed read of query_questions and
\* get_sessions, a failed upload, a failed student lookup and a failed
\* worksheet or lesson-plan write leave success = true, and a failed read
\* of query_students is answered as no students.
C10_FailuresThatReachTheHandler ==
    last.tool # "none" =>
      /\ ~IsExc(last.result)
      /\ last.result.success \in BOOLEAN
      /\ ~last.result.success => "error" \in DOMAIN last.result
      /\ Failed(last) \cap ReachHandler(last.tool) # {}
            => ~last.result.success
      /\ (Failed(last) # {} /\ Failed(last) \subseteq Swallowed(last.tool))
            => last.result.success
      /\ (last.tool = "query_students" /\ Failed(last) # {})
            => /\ last.result.students = <<>>
               /\ last.result.success
                     <=> (~Truthy(last.args.student_id)
                            /\ ~Truthy(last.args.student_name))

C10_Witness ==
    /\ last.tool = "create_worksheet"
    /\ Failed(last) = {"worksheet.put_object", "worksheet.put_item"}
    /\ last.result.success
    /\ worksheets = <<>>
    /\ files = {}


(***************************************************************************)
(* C11: the read accessors mask store errors as empty results.             *)
(***************************************************************************)
\* the accessors that answer a list, and those that answer one record
ListAccessors ==
    {"db.get_all_students", "db.get_grade_history", "db.search_questions",
     "db.get_schedule", "db.get_sessions"}
RecordAccessors == {"db.get_student_by_name", "db.get_student_by_id"}

\* what the accessor of a call answers for the same arguments when the store
\* answers and holds the given table
Answer(call, tbl) ==
    LET a == call.args
    IN CASE call.tool = "db.get_student_by_name" ->
              GetStudentByName(tbl, a.name, TRUE)
         [] call.tool = "db.get_student_by_id" ->
              GetStudentById(tbl, a.student_id, TRUE)
         [] call.tool = "db.get_all_students" -> GetAllStudents(tbl, TRUE)
         [] call.tool = "db.get_grade_history" ->
              GetGradeHistory(tbl, a.student_id, a.limit, TRUE)
         [] call.tool = "db.search_questions" ->
              SearchQuestions(tbl, a.topic, a.difficulty, a.limit, TRUE)
         [] call.tool = "db.get_schedule" ->
              DbGetSchedule(tbl, a.student_id, TRUE)
         [] call.tool = "db.get_sessions" ->
              DbGetSessions(tbl, a.student_id,
                            DateRange(a.start_date, a.end_date), a.limit,
                            TRUE)

\* the table the accessor of a call reads
TableOf(call) ==
    CASE call.tool \in RecordAccessors \cup {"db.get_all_students"} ->
              StudentsTable
      [] call.tool = "db.get_grade_history" -> GradeHistoryTable
      [] call.tool = "db.search_questions" -> questions
      [] call.tool = "db.get_schedule" -> SchedulesTable
      [] call.tool = "db.get_sessions" -> sessions

\* C11: every read accessor (get_student_by_name, get_student_by_id,
\* get_all_students, get_grade_history, search_questions, get_schedule,
\* get_sessions) answers a store error with the empty result, the empty list
\* or None for a single-record lookup, which is what it answers for the same
\* arguments when the store works and holds nothing that matches.
C11_ReadFailureIsEmptyResult ==
    (last.tool \in ListAccessors \cup RecordAccessors /\ ~last.env.readOk)
       => /\ last.tool \in ListAccessors => last.result = <<>>
          /\ last.tool \in RecordAccessors => DOMAIN last.result = {}
          /\ last.result = Answer(last, <<>>)

\* a read that failed on a table in which the same request has matches
C11_Witness ==
    /\ last.tool \in ListAccessors \cup RecordAccessors
    /\ ~last.env.readOk
    /\ last.tool = "db.get_schedule"
    /\ Answer(last, TableOf(last)) # <<>>
    /\ last.result = <<>>


(***************************************************************************)
(* C12: a lesson plan created for a session is linked to it.               *)
(***************************************************************************)
\* the last call was create_lesson_plan for a session and returned success
LessonForSessionSucceeded ==
    /\ last.tool = "create_lesson_plan"
    /\ "session_id" \in DOMAIN last.args
    /\ ~IsExc(last.result)
    /\ last.result.success

\* C12: when create_lesson_plan is called for a session (session_id, with
\* session_date and student_id) and returns success, the session record's
\* lesson_plan_id equals the returned lesson_plan_id.  (The code makes no
\* link update at all, so there is no failure of one to except.)
C12_LessonPlanLinkedToSession ==
    LessonForSessionSucceeded
       => \E i \in 1..Len(sessions) :
             /\ sessions[i].session_id = last.args.session_id
             /\ "lesson_plan_id" \in DOMAIN sessions[i]
             /\ sessions[i].lesson_plan_id = last.result.lesson_plan_id


(***************************************************************************)
(* C13: no workflow order and no confirmation is enforced.                 *)
(***************************************************************************)
CreationTools ==
    {"generate_questions", "create_worksheet", "create_lesson_plan",
     "create_session"}

\* the model call of the last tool call raised, or its answer could not be
\* used
ModelFailed ==
    \/ "resp" \in DOMAIN last.env /\ last.env.resp.kind = "raise"
    \/ "lresp" \in DOMAIN last.env /\ last.env.lresp.kind = "scalar"

\* the record the last call reports is in its table
RecordCreated ==
    CASE last.tool = "generate_questions" ->
           /\ last.result.count > 0
           /\ \A i \in 1..Len(last.result.questions) :
                 Stored(questions, "question_id",
                        last.result.questions[i].question_id) # <<>>
      [] last.tool = "create_worksheet" ->
           Stored(worksheets, "worksheet_id", last.result.worksheet_id) # <<>>
      [] last.tool = "create_lesson_plan" ->
           Stored(lessonPlans, "lesson_plan_id", last.result.lesson_plan_id)
             # <<>>
      [] last.tool = "create_session" ->
           Stored(sessions, "session_id", last.result.session.session_id)
             # <<>>

\* C13: the code enforces no workflow order and no confirmation step.  In
\* every state of a chat, the first included, a call of generate_questions,
\* create_worksheet, create_lesson_plan or create_session runs and, its
\* model call working, returns success with its records in the store,
\* whatever was or was not called before: none is rejected for coming out
\* of the order topic discovery, question search, generation, confirmation,
\* creation.
C13_NoOrderEnforced ==
    (last.tool \in CreationTools /\ ~ModelFailed)
       => /\ last.result.success
          /\ RecordCreated

\* generate_questions created records as the first call of a chat, with no
\* topic discovery, no search and no user message before it
C13_Witness ==
    /\ calls = 1
    /\ prev = NoCall
    /\ last.tool = "generate_questions"
    /\ last.result.success
    /\ last.result.source = "generated"
    /\ Len(questions) > 0


(***************************************************************************)
(* C14: the existence check of generate_questions ignores letter case.     *)
(***************************************************************************)
\* the records of the table whose topic holds the requested one when letter
\* case is ignored, and that are of the mapped difficulty
StoreMatchingAnyCase(tbl, a) ==
    SelectSeq(tbl,
              LAMBDA q :
                /\ "topic" \in DOMAIN q
                /\ Contains(Lower(q.topic), Lower(a.topic))
                /\ Lower(Get(q, "difficulty", ""))
                     = Lower(DifficultyMap(a.difficulty_level)))

\* the topic names of the table
TopicsOf(tbl) == {q.topic : q \in {r \in Range(tbl) : "topic" \in DOMAIN r}}

\* C14: generate_questions checks for existing questions by topic name
\* without regard to letter case: with records under "Fractions" in the
\* store, a request for "fractions" counts them as existing and reuses them
\* (enough of them: no model call and no new record), and a record it
\* creates goes under the existing topic name, so that no topic name is
\* added that differs from an existing one only in letter case.
C14_TopicMatchedIgnoringCase ==
    [][GenStep /\ last'.env.readOk
         => /\ Len(StoreMatchingAnyCase(questions, last'.args))
                  >= last'.args.question_count
                 => questions' = questions /\ ~last'.obs.model_called
            /\ \A t \in TopicsOf(questions') \ TopicsOf(questions) :
                  \A e \in TopicsOf(questions) : Lower(e) # Lower(t)]_vars


(***************************************************************************)
(* C15: the question selection and its fallbacks.                          *)
(***************************************************************************)
\* the indices 0 .. n-1 in order
FirstIndices(indices, n) ==
    /\ Len(indices) = n
    /\ \A i \in 1..n : indices[i] = i - 1

\* the model's answer to the last call does not parse, or holds no
\* selectedIndices list
NoSelection(resp) ==
    \/ resp.kind = "raise"
    \/ ~JsonLoads(CleanJsonResponse(resp.text)).ok
    \/ resp.text.body.type # "object"
    \/ "selectedIndices" \notin DOMAIN resp.text.body.fields
    \/ resp.text.body.fields.selectedIndices.type # "array"

\* C15: select_questions_with_ai over N available questions with target
\* count K returns all indices 0..N-1 without calling the model when
\* N <= K; when N > K and the model call fails, its output is not valid
\* JSON (once the code fences are cut), or it holds no selectedIndices list,
\* it returns the first K indices 0..K-1 in order.
C15_SelectionFallsBackToFirstK ==
    last.tool = "select_questions_with_ai"
       => LET N == Len(last.args.questions)
              K == Get(last.args.criteria, "questionCount",
                       DefaultQuestionCount)
              r == last.result
          IN /\ N <= K
                   => /\ r.exc = None
                      /\ ~r.model_called
                      /\ FirstIndices(r.indices, N)
             /\ (N > K /\ r.model_called /\ NoSelection(last.env.resp))
                   => /\ r.exc = None
                      /\ FirstIndices(r.indices, K)

\* more questions than wanted, and the model answered JSON without a
\* selectedIndices list: the first K were returned
C15_Witness ==
    /\ last.tool = "select_questions_with_ai"
    /\ last.result.model_called
    /\ last.env.resp.kind = "text"
    /\ JsonLoads(CleanJsonResponse(last.env.resp.text)).ok
    /\ NoSelection(last.env.resp)
    /\ Len(last.args.questions) > Len(last.result.indices)
    /\ Len(last.result.indices) = MaxK
    /\ FirstIndices(last.result.indices, MaxK)


(***************************************************************************)
(* C16: the shape of a grading result.                                     *)
(***************************************************************************)
GradingKeys ==
    {"total_questions", "correct_answers", "score", "question_results",
     "weaknesses", "insights"}

\* C16: grade_worksheet_with_ai never raises and always returns a result of
\* the fixed shape (total_questions, correct_answers, score,
\* question_results, weaknesses, insights); on a model or parse error it
\* returns the ungraded result (0 questions, 0 correct, score "0/0", no
\* question results, no weaknesses).
C16_GradingResultHasFixedShape ==
    last.tool = "grade_worksheet_with_ai"
       => /\ last.result.type = "object"
          /\ DOMAIN last.result.fields = GradingKeys
          /\ (\/ last.env.resp.kind = "raise"
              \/ ~JsonLoads(CleanJsonResponse(last.env.resp.text)).ok)
                => /\ last.result.fields.total_questions = 0
                   /\ last.result.fields.correct_answers = 0
                   /\ last.result.fields.score = "0/0"
                   /\ last.result.fields.question_results = <<>>
                   /\ last.result.fields.weaknesses = <<>>


(***************************************************************************)
(* C17: the fallback chain of the question segmentation.                   *)
(***************************************************************************)
\* the model's answer did not give a list
NoList(resp) ==
    \/ resp.kind = "raise"
    \/ ~JsonLoads(resp.text).ok
    \/ resp.text.body.type # "array"

\* every question of the list has this confidence
AllOfConfidence(list, confidence) ==
    \A i \in 1..Len(list) : list[i].confidence = confidence

\* a line that starts with a marker is followed, on it or on the next
\* lines, by a text of more than 10 characters
MarkedQuestion(lines) ==
    \E i \in 1..Len(lines) :
       /\ lines[i].mark # ""
       /\ \/ Len(Strip(lines[i].body)) > MinQuestionLength
          \/ /\ Strip(lines[i].body) = ""
             /\ i < Len(lines)
             /\ Len(Strip(RawLine(lines[i + 1]))) > MinQuestionLength

\* C17: in parse_questions_with_ai, when the model call fails, its output
\* does not parse as JSON, or the parsed value is no list, the result is
\* the regex splitter's questions (numbered or lettered markers, each with
\* confidence 0.7) when the splitter finds at least one; only when it finds
\* none is it the paragraphs between blank lines (each with confidence
\* 0.5); no result mixes the two kinds.
C17_FallbackChain ==
    (/\ last.tool = "parse_questions_with_ai"
     /\ last.result.model_called
     /\ NoList(last.env.resp))
       => LET lines == last.args.text
              result == last.result.questions
              split == RegexQuestions(lines, 1)
          IN /\ split # <<>>
                   => /\ result = split
                      /\ AllOfConfidence(result, RegexConfidence)
             /\ split = <<>>
                   => /\ result = ParagraphQuestions(Paragraphs(lines, <<>>))
                      /\ AllOfConfidence(result, ParagraphConfidence)
             /\ MarkedQuestion(lines) <=> split # <<>>
             /\ \/ AllOfConfidence(result, RegexConfidence)
                \/ AllOfConfidence(result, ParagraphConfidence)

\* the model gave no list for a text with numbered lines too short to
\* count: the paragraphs were returned
C17_Witness ==
    /\ last.tool = "parse_questions_with_ai"
    /\ last.result.model_called
    /\ NoList(last.env.resp)
    /\ \E i \in 1..Len(last.args.text) : last.args.text[i].mark # ""
    /\ last.result.questions # <<>>
    /\ AllOfConfidence(last.result.questions, ParagraphConfidence)

(***************************************************************************)
(* C18: the worksheets list of a chat response.                            *)
(***************************************************************************)
\* the entries of a trace that report a created worksheet
CreatedWorksheets(tool_results) ==
    { i \in DOMAIN tool_results :
        /\ tool_results[i].name \in WorksheetTools
        /\ tool_results[i].output.success }

WorksheetBuilt == last.tool = "create_worksheet" /\ last.result.success

\* C19: every worksheet record built by create_worksheet, the one returned
\* and the ones stored, has question_count equal to the length of its
\* question_ids list, and the question_count of the tool result's metadata
\* is that same number.
C19_QuestionCountIsNumberOfIds ==
    /\ \A i \in DOMAIN worksheets :
          worksheets[i].question_count = Len(worksheets[i].question_ids)
    /\ WorksheetBuilt
       => /\ last.result.worksheet.question_count
                = Len(last.result.worksheet.question_ids)
          /\ last.result.metadata.question_count
                = Len(last.result.worksheet.question_ids)

\* a worksheet was built and stored with fewer questions than were asked
\* for: one of the two requested ids is not in the bank
C19_Witness ==
    /\ WorksheetBuilt
    /\ Len(last.args.question_ids) = 2
    /\ Len(last.result.worksheet.question_ids) = 1
    /\ \E i \in DOMAIN worksheets :
          worksheets[i].worksheet_id = last.result.worksheet_id

(***************************************************************************)
(* C20: generate_questions with a question_count outside 1..20.            *)
(***************************************************************************)
\* a step that is a generate_questions call with a question_count below 1
\* or above 20
InvalidCountStep ==
    /\ Idle /\ calls' = 1
    /\ last'.tool = "generate_questions"
    /\ last'.args.question_count \notin 1..MaxQuestionCount

\* C20: generate_questions called with question_count < 1 or > 20 returns
\* success = false with the error "question_count must be between 1 and 20"
\* and an empty questions list, and it has not read the store, called the
\* model or written a record.
C20_InvalidCountRejected ==
    [][InvalidCountStep
         => /\ last'.result
                 = [success |-> FALSE,
                    error |-> "question_count must be between 1 and 20",
                    questions |-> <<>>]
            /\ ~last'.obs.searched
            /\ ~last'.obs.model_called
            /\ questions' = questions
            /\ nextId' = nextId]_vars

\* a call asking for 21 questions was turned down although the bank holds
\* questions on the topic
C20_Witness ==
    /\ last.tool = "generate_questions"
    /\ last.args.question_count = MaxQuestionCount + 1
    /\ ~last.result.success
    /\ \E i \in DOMAIN questions : questions[i].topic = last.args.topic

(***************************************************************************)
(* C21: the question_count argument of create_lesson_with_worksheet.       *)
(***************************************************************************)
\* C21: a successful create_lesson_with_worksheet(question_count = n) has
\* produced a worksheet with n questions, in the package it returns and in
\* the record it stored.
C21_PackageHasRequestedCount ==
    (last.tool = "create_lesson_with_worksheet" /\ last.result.success)
    => /\ last.result.package.worksheet.question_count
             = last.args.question_count
       /\ \A i \in DOMAIN worksheets :
             worksheets[i].worksheet_id = last.result.worksheet_id
             => Len(worksheets[i].question_ids) = last.args.question_count

(***************************************************************************)
(* C22: a student booked twice on one day.                                 *)
(***************************************************************************)
\* the last two calls are create_session calls for the same student and
\* date that differ in time or duration, and the store took both writes
DoubleBooking ==
    /\ prev.tool = "create_session" /\ last.tool = "create_session"
    /\ prev.args.student_id = last.args.student_id
    /\ prev.args.session_date = last.args.session_date
    /\ (prev.args.time # last.args.time
          \/ prev.args.duration # last.args.duration)
    /\ prev.env.putOk /\ last.env.putOk

\* the records of the sessions table for the student and date of a call
BookedFor(a) ==
    { i \in DOMAIN sessions :
        sessions[i].student_id = a.student_id
          /\ sessions[i].date = a.session_date }

\* C22: when create_session is called twice for the same student and date
\* with a different time or duration and the store takes both writes, both
\* calls report success and the sessions table afterwards holds one record
\* for that date and student, the one the second call reports, with the
\* fields of the second call and none of the first call's.
C22_DoubleBookingOverwrites ==
    DoubleBooking
    => /\ prev.result.success /\ last.result.success
       /\ Cardinality(BookedFor(last.args)) = 1
       /\ \A i \in BookedFor(last.args) :
             /\ sessions[i] = last.result.session
             /\ sessions[i].time = last.args.time
             /\ sessions[i].duration = last.args.duration
             /\ Get(sessions[i], "lesson_plan_id", None)
                   = last.args.lesson_plan_id
             /\ Get(sessions[i], "notes", None) = last.args.notes

\* the second booking changed time and duration and had no lesson plan and
\* no notes: the first booking's lesson plan link and notes are gone
C22_Witness ==
    /\ DoubleBooking
    /\ prev.args.time # last.args.time
    /\ prev.args.duration # last.args.duration
    /\ prev.args.lesson_plan_id # None /\ prev.args.notes # None
    /\ last.args.lesson_plan_id = None /\ last.args.notes = None
    /\ \A i \in BookedFor(last.args) :
          DOMAIN sessions[i] \cap {"lesson_plan_id", "notes"} = {}

(***************************************************************************)
(* C23: a failed generate_questions call and the questions table.          *)
(***************************************************************************)
\* a step that is a generate_questions call returning success = false
FailedGenStep ==
    /\ Idle /\ calls' = 1
    /\ last'.tool = "generate_questions"
    /\ ~last'.result.success

Succeeded(tool) == last.tool = tool /\ last.result.success

\* C24 as stated: whenever create_worksheet returns success with a
\* worksheet_id, or create_lesson_plan returns success with a
\* lesson_plan_id, a record with that id is in the worksheets table,
\* respectively the lesson-plans table.
C24_AsStated ==
    /\ Succeeded("create_worksheet")
         => Stored(worksheets, "worksheet_id", last.result.worksheet_id) # <<>>
    /\ Succeeded("create_lesson_plan")
         => Stored(lessonPlans, "lesson_plan_id", last.result.lesson_plan_id)
               # <<>>

\* C24: whenever create_worksheet returns success with a worksheet_id, or
\* create_lesson_plan returns success with a lesson_plan_id, one record
\* with that id, the one returned, is in the worksheets table, respectively
\* the lesson-plans table, unless the put_item of that record failed: then
\* the call has returned success with the id all the same and no record
\* with that id exists.
C24_RecordStoredUnlessWriteFailed ==
    /\ Succeeded("create_worksheet")
         => /\ last.result.worksheet_id # None
            /\ Stored(worksheets, "worksheet_id", last.result.worksheet_id)
                  = IF "worksheet.put_item" \in last.failed THEN <<>>
                    ELSE <<last.result.worksheet>>
    /\ Succeeded("create_lesson_plan")
         => /\ last.result.lesson_plan_id # None
            /\ Stored(lessonPlans, "lesson_plan_id",
                      last.result.lesson_plan_id)
                  = IF "lesson.put_item" \in last.failed THEN <<>>
                    ELSE <<last.result.lesson_plan>>

\* create_lesson_plan returned success with an id after its put_item had
\* failed, and the lesson-plans table is empty
C24_Witness ==
    /\ Succeeded("create_lesson_plan")
    /\ last.result.lesson_plan_id # None
    /\ "lesson.put_item" \in last.failed
    /\ lessonPlans = <<>>

(***************************************************************************)
(* C25: the question ids of a worksheet built without question_ids.        *)
(***************************************************************************)
\* a create_worksheet call without question_ids that built a worksheet
AutoWorksheetBuilt ==
    /\ last.tool = "create_worksheet"
    /\ last.args.question_ids = <<>>
    /\ last.result.success

\* C25: the question_ids list of a worksheet that create_worksheet builds
\* without explicit question_ids holds no question id twice, for every
\* difficulty_level and every content of the store.
C25_NoQuestionIdTwice ==
    AutoWorksheetBuilt
    => LET ids == last.result.worksheet.question_ids
       IN \A i, j \in DOMAIN ids : ids[i] = ids[j] => i = j

(***************************************************************************)
(* C30: the size of a worksheet built without question_ids.                *)
(***************************************************************************)
\* C30: a worksheet that create_worksheet builds without explicit
\* question_ids has between 1 and 8 questions whenever the call returns
\* success, whatever the store holds and the model answers; a call that
\* got no question at all returns success = false and writes no worksheet
\* record.
C30_AutoWorksheetSize ==
    (last.tool = "create_worksheet" /\ last.args.question_ids = <<>>)
    => IF last.result.success
       THEN /\ Len(last.result.questions) \in 1..WorksheetQuestionCount
            /\ Len(last.result.worksheet.question_ids)
                  = Len(last.result.questions)
       ELSE /\ last.result.error
                  = "No questions available and generation failed"
            /\ worksheets = <<>>

\* a full worksheet of records of the bank and a new question, the model
\* having answered more entries than a worksheet takes
C30_Witness ==
    /\ AutoWorksheetBuilt
    /\ last.env.resp.kind = "array"
    /\ Len(last.env.resp.items) > WorksheetQuestionCount
    /\ Len(last.result.questions) = WorksheetQuestionCount
    /\ Len(questions) = WorksheetQuestionCount
    /\ Len(worksheets) = 1

(***************************************************************************)
(* C26: generate_questions repeated.                                       *)
(***************************************************************************)
\* a step that repeats a generate_questions call which returned success
\* with as many questions as it was asked for
RepeatStep ==
    /\ calls = 1 /\ calls' = 2
    /\ last.tool = "generate_questions" /\ last'.tool = "generate_questions"
    /\ last'.args = last.args
    /\ last.result.success
    /\ Len(last.result.questions) = last.args.question_count

\* C26: after generate_questions(topic, difficulty_level, K) has returned
\* success with K questions, the same call made right after it creates no
\* record and returns K questions with source "database".
C26_RepeatedCallCreatesNothing ==
    [][RepeatStep
         => /\ questions' = questions
            /\ last'.result.success
            /\ last'.result.source = "database"
            /\ Len(last'.result.questions) = last.args.question_count]_vars

(***************************************************************************)
(* C27: the topic of a lesson plan made for a topic.                       *)
(***************************************************************************)
\* C27: for content_source_type = "topic" the lesson plan that
\* create_lesson_plan returns and stores has topic equal to
\* content_source_data, whether or not a student_id is passed and whether
\* or not that student is found.
C27_TopicIsContentSourceData ==
    (Succeeded("create_lesson_plan")
       /\ last.args.content_source_type = "topic")
    => /\ last.result.lesson_plan.topic = last.args.content_source_data
       /\ \A i \in DOMAIN lessonPlans :
             lessonPlans[i].topic = last.args.content_source_data

(***************************************************************************)
(* C28: the indices select_questions_with_ai returns.                      *)
(***************************************************************************)
\* C28: every list select_questions_with_ai returns for N questions and
\* target K has at most K elements, each an index in 0..N-1, and no index
\* twice, also when the list is the one the model answered.
C28_SelectedIndicesValid ==
    (last.tool = "select_questions_with_ai" /\ last.result.exc = None)
    => LET N == Len(last.args.questions)
           K == Get(last.args.criteria, "questionCount",
                    DefaultQuestionCount)
           indices == last.result.indices
       IN /\ Len(indices) <= K
          /\ \A i \in DOMAIN indices : indices[i] \in 0..(N - 1)
          /\ \A i, j \in DOMAIN indices : indices[i] = indices[j] => i = j

(***************************************************************************)
(* C29                                                                     *)
(***************************************************************************)
\* the call of get_schedule the state holds, and what it read
ScheduleCalled == last # NoCall /\ last.tool = "get_schedule"
SchedulesRead ==
    DbGetSchedule(last.env.schedules, last.args.student_id, last.env.readOk)

\* the templates of the call carry a day_of_week of 1 = Monday .. 7 = Sunday
DayOfWeekCoded ==
    \A k \in 1..Len(SchedulesRead) :
        /\ "day_of_week" \in DOMAIN SchedulesRead[k]
        /\ SchedulesRead[k].day_of_week \in 1..7

\* the weekday of a day with 1 = Monday .. 7 = Sunday
IsoWeekday(day) == (day % 7) + 1

\* the pairs of an active template and a day offset that falls on its weekday
DuePairs ==
    {p \in (1..Len(SchedulesRead)) \X (0..(last.args.days_ahead - 1)) :
        /\ Get(SchedulesRead[p[1]], "is_active", TRUE)
        /\ IsoWeekday(last.env.today + p[2]) = SchedulesRead[p[1]].day_of_week}

\* the entries of the result for template k on day offset i
EntriesFor(k, i) ==
    {n \in 1..Len(last.result.sessions) :
        /\ last.result.sessions[n].schedule_id = SchedulesRead[k].schedule_id
        /\ last.result.sessions[n].date = StrftimeDate(last.env.today + i)}

\* C29: get_schedule(days_ahead = d) succeeds with exactly one entry for
\* each pair of an active schedule template and a day offset i in 0..d-1
\* whose weekday is the template's day_of_week (1 = Monday .. 7 = Sunday),
\* with no other entry (so none for an inactive template), and the entries
\* are in ascending order of (date, time)
C29_ScheduleExpanded ==
    (ScheduleCalled /\ DayOfWeekCoded) =>
        /\ last.result.success
        /\ \A p \in DuePairs : Cardinality(EntriesFor(p[1], p[2])) = 1
        /\ \A n \in 1..Len(last.result.sessions) :
              \E p \in DuePairs : n \in EntriesFor(p[1], p[2])
        /\ \A k \in 1..Len(SchedulesRead) :
              ~Get(SchedulesRead[k], "is_active", TRUE) =>
                 \A n \in 1..Len(last.result.sessions) :
                    last.result.sessions[n].schedule_id
                       # SchedulesRead[k].schedule_id
        /\ \A n \in 1..(Len(last.result.sessions) - 1) :
              LET x == last.result.sessions[n]
                  y == last.result.sessions[n + 1]
              IN \/ StrLess(x.date, y.date)
                 \/ x.date = y.date /\ StrLeq(x.time, y.time)

\* a fortnight from a Wednesday over all the weekly schedules: each active
\* template twice, the inactive one never, the two Monday templates of a
\* date in the order of their hours, the dates across the turn of the year
C29_Witness ==
    /\ ScheduleCalled
    /\ DayOfWeekCoded
    /\ last.env.schedules = WeeklySchedules
    /\ last.args.student_id = None
    /\ last.args.days_ahead = 2 * DefaultDaysAhead
    /\ last.env.today = 2
    /\ last.result.success
    /\ last.result.count = 8
    /\ last.result.sessions[1].date = "2025-12-31"
    /\ last.result.sessions[2].date = "2026-01-04"
    /\ last.result.sessions[2].day = "Sunday"
    /\ last.result.sessions[3].schedule_id = "schedule_d4"
    /\ last.result.sessions[4].schedule_id = "schedule_c3"
    /\ last.result.sessions[4].date = "2026-01-05"

====
